---- MODULE Spec2Model ----
(***************************************************************************)
(* Verification model of the Ethyr address risk-analysis engine.           *)
(*                                                                         *)
(* Part 1: RiskDetectionPipeline (models/risk_detection_pipeline.py), the  *)
(* heuristic scorer that maps a feature set to (score, tier, explanation). *)
(*                                                                         *)
(* Numbers.  The source computes with binary floats.  Every weight is a    *)
(* multiple of 1/100 and every combination multiplier a multiple of 1/20,  *)
(* so a score is represented exactly as an integer count of units of       *)
(* 1/Scale, Scale = 100 * 20^4 (a base sum times up to four multipliers).  *)
(* Weights are held in hundredths and multipliers in twentieths.  For all  *)
(* 64 factor sets the float result of the source falls in the same tier    *)
(* and prints the same two decimals as the exact value modelled here.      *)
(***************************************************************************)
EXTENDS Integers, Sequences, FiniteSets, TLC

(***************************************************************************)
(* Bounds of the model: the feature values a call is made with.            *)
(***************************************************************************)
MaxMintCount == 11
MaxAgeDays == 7
MaxCalls == 2

\* mint_event_count values: the counts around the threshold of line 60 up
\* to the bound, and the counts the repository's tests and generators use.
MintCounts == (9..MaxMintCount) \cup {0, 5, 8, 15, 20}

\* contract_age_days values: the ages around the threshold of line 66 up to
\* the bound, and the ages the repository's tests and generators use.
AgeDays == (6..MaxAgeDays) \cup {0, 1, 2, 14, 15, 30, 60, 365}

\* features_text values (the tests pass "Test address" and "").
FeatureTexts == {"Test address", ""}

Scale == 100 * 20 * 20 * 20 * 20
Hundredth == Scale \div 100

\* The feature fields analyze_address reads, and the values of each.
FeatureValues(key) ==
    IF key = "mint_event_count" THEN MintCounts
    ELSE IF key = "contract_age_days" THEN AgeDays
    ELSE BOOLEAN

FeatureSets ==
    [is_contract : FeatureValues("is_contract"),
     verified_contract : FeatureValues("verified_contract"),
     has_mint_privileges : FeatureValues("has_mint_privileges"),
     mint_event_count : FeatureValues("mint_event_count"),
     lp_locked : FeatureValues("lp_locked"),
     honeypot_result : FeatureValues("honeypot_result"),
     contract_age_days : FeatureValues("contract_age_days")]

VARIABLES
    risk_weights,          \* self.risk_weights (hundredths)
    risk_combinations,     \* self.risk_combinations (twentieths)
    pc,                    \* "idle": no call in progress; "returned": a call has returned
    address_data,          \* the caller's dict, the argument of the call: [features |-> FeatureSet]
    features_text,         \* the caller's text, the argument of the call
    risk_factors,          \* local of analyze_address
    risk_score,            \* local of analyze_address
    applied_combinations,  \* local of analyze_address
    result,                \* the returned tuple (risk_score, risk_tier, explanation)
    calls,                 \* number of calls made on this pipeline object
    task,                  \* the requests being served: per request, the handler's and fetch_address_data's locals
    KNOWN_PROTOCOLS,       \* blockchain_utils.KNOWN_PROTOCOLS (module level)
    config_cache,          \* Config().cache of the Config singleton (module level)
    search,                \* one call of get_block_number_24h_ago: the chain it reads and its locals
    scan,                  \* one call of get_token_market_data: the pools it reads and its locals
    call                   \* one call of another helper of blockchain_utils.py: what it is given and its locals

vars == <<risk_weights, risk_combinations, pc, address_data, features_text,
          risk_factors, risk_score, applied_combinations, result, calls,
          task, KNOWN_PROTOCOLS, config_cache, search, scan, call>>

\* The variables of one direct use of the pipeline object (Part 1).
pipeline_call_vars == <<pc, address_data, features_text, risk_factors,
                        risk_score, applied_combinations, result, calls>>

\* The variables of single helper calls (Parts 3 to 5).
helper_vars == <<search, scan, call>>

\* The variables outside the pipeline object (Parts 2 to 4).
service_vars == <<task, KNOWN_PROTOCOLS, config_cache, search, scan, call>>

(***************************************************************************)
(* RiskDetectionPipeline.__init__                                          *)
(***************************************************************************)
RiskWeightsTable ==
    [unverified_contract |-> 35,
     mint_privileges |-> 25,
     high_mint_count |-> 20,
     unlocked_liquidity |-> 30,
     honeypot_result |-> 45,
     new_contract |-> 20]

\* The uplifts (0.2, 0.3, 0.15, 0.25) written where the factors belong.
RiskCombinationsTableUplifts ==
    (<<"unverified_contract", "mint_privileges">> :> 4) @@
    (<<"unlocked_liquidity", "honeypot_result">> :> 6) @@
    (<<"new_contract", "unverified_contract">> :> 3) @@
    (<<"mint_privileges", "high_mint_count">> :> 5)

RiskCombinationsTable ==
    (<<"unverified_contract", "mint_privileges">> :> 24) @@
    (<<"unlocked_liquidity", "honeypot_result">> :> 26) @@
    (<<"new_contract", "unverified_contract">> :> 23) @@
    (<<"mint_privileges", "high_mint_count">> :> 25)

(***************************************************************************)
(* Python's ordering of the strings that occur as factor names, as used by *)
(* sorted([factor1, factor2]).                                             *)
(***************************************************************************)
StrRank ==
    [high_mint_count |-> 1,
     honeypot_detected |-> 2,
     honeypot_result |-> 3,
     mint_privileges |-> 4,
     new_contract |-> 5,
     unlocked_liquidity |-> 6,
     unverified_contract |-> 7]

\* tuple(sorted([factor1, factor2]))
SortedCombo(factor1, factor2) ==
    IF StrRank[factor1] <= StrRank[factor2]
    THEN <<factor1, factor2>>
    ELSE <<factor2, factor1>>

(***************************************************************************)
(* analyze_address: collecting the risk factors (lines 54-67).             *)
(***************************************************************************)
\* mint_event_count >= 10 for > 10.
IsHighMintCountInclusive(features) == features.mint_event_count >= 10

IsHighMintCount(features) == features.mint_event_count > 10

\* contract_age_days <= 7 for < 7.
IsNewContractInclusive(features) == features.contract_age_days <= 7

IsNewContract(features) == features.contract_age_days < 7

\* The collection with the mint-count factor appended whenever the mint
\* privileges factor is: what lines 56-67 would be if the third test read
\* has_mint_privileges instead of the count.
CollectRiskFactorsMintImpliesCount(weights, features) ==
    (IF ~features.verified_contract
        THEN << <<"unverified_contract", weights["unverified_contract"]>> >>
        ELSE <<>>) \o
    (IF features.has_mint_privileges
        THEN << <<"mint_privileges", weights["mint_privileges"]>>,
                <<"high_mint_count", weights["high_mint_count"]>> >>
        ELSE <<>>) \o
    (IF ~features.lp_locked
        THEN << <<"unlocked_liquidity", weights["unlocked_liquidity"]>> >>
        ELSE <<>>) \o
    (IF features.honeypot_result
        THEN << <<"honeypot_detected", weights["honeypot_result"]>> >>
        ELSE <<>>) \o
    (IF IsNewContract(features)
        THEN << <<"new_contract", weights["new_contract"]>> >>
        ELSE <<>>)

CollectRiskFactors(weights, features) ==
    (IF ~features.verified_contract
        THEN << <<"unverified_contract", weights["unverified_contract"]>> >>
        ELSE <<>>) \o
    (IF features.has_mint_privileges
        THEN << <<"mint_privileges", weights["mint_privileges"]>> >>
        ELSE <<>>) \o
    (IF IsHighMintCount(features)
        THEN << <<"high_mint_count", weights["high_mint_count"]>> >>
        ELSE <<>>) \o
    (IF ~features.lp_locked
        THEN << <<"unlocked_liquidity", weights["unlocked_liquidity"]>> >>
        ELSE <<>>) \o
    (IF features.honeypot_result
        THEN << <<"honeypot_detected", weights["honeypot_result"]>> >>
        ELSE <<>>) \o
    (IF IsNewContract(features)
        THEN << <<"new_contract", weights["new_contract"]>> >>
        ELSE <<>>)

(***************************************************************************)
(* First pass (lines 70, 74-75): the sum of the weights, in units 1/Scale. *)
(***************************************************************************)
RECURSIVE SumWeights(_, _)
SumWeights(factors, k) ==
    IF k > Len(factors) THEN 0
    ELSE factors[k][2] + SumWeights(factors, k + 1)

FirstPass(factors) == SumWeights(factors, 1) * Hundredth

(***************************************************************************)
(* Second pass (lines 71, 78-83).  The nested loops visit the index pairs  *)
(* (i, j), i < j, in row order; k counts through the n * n grid.  st is    *)
(* the pair of locals (risk_score, applied_combinations).                  *)
(***************************************************************************)
FreshAppliedCombinations == {}

RECURSIVE SecondPass(_, _, _, _)
SecondPass(combinations, factors, k, st) ==
    LET n == Len(factors) IN
    IF k >= n * n THEN st
    ELSE LET i == (k \div n) + 1
             j == (k % n) + 1
         IN  IF j <= i THEN SecondPass(combinations, factors, k + 1, st)
             ELSE LET combo == SortedCombo(factors[i][1], factors[j][1]) IN
                  IF combo \in DOMAIN combinations /\ combo \notin st.applied
                  THEN SecondPass(combinations, factors, k + 1,
                           [score |-> (st.score * combinations[combo]) \div 20,
                            applied |-> st.applied \cup {combo}])
                  ELSE SecondPass(combinations, factors, k + 1, st)

\* The clamp placed at 0.99 instead of 1.0.
NormalizeCappedAt99(score) ==
    IF score < 99 * Hundredth THEN score ELSE 99 * Hundredth

\* The score handed on without the clamp.
NormalizeUnclamped(score) == score

\* risk_score = min(1.0, risk_score)   (line 86)
Normalize(score) == IF score < Scale THEN score ELSE Scale

\* The locals after lines 55-86 (the contract branch).
ScoreContract(weights, combinations, features) ==
    LET factors == CollectRiskFactors(weights, features)
        st == SecondPass(combinations, factors, 0,
                  [score |-> FirstPass(factors),
                   applied |-> FreshAppliedCombinations])
    IN  [risk_factors |-> factors,
         raw_score |-> st.score,
         risk_score |-> Normalize(st.score),
         applied_combinations |-> st.applied]

\* The contract branch taken without the is_contract test.
ScoreAddressIgnoringKind(weights, combinations, features) ==
    ScoreContract(weights, combinations, features)

\* The locals after lines 54-89 (both branches).
ScoreAddress(weights, combinations, features) ==
    IF features.is_contract
    THEN ScoreContract(weights, combinations, features)
    ELSE [risk_factors |-> <<>>,
          raw_score |-> 0,
          risk_score |-> 0,
          applied_combinations |-> {}]

(***************************************************************************)
(* _get_risk_tier (lines 104-111).                                         *)
(***************************************************************************)
\* The two comparisons strict (< for <=).
_get_risk_tier_strict(score) ==
    IF score * 10 < 3 * Scale THEN "Safe"
    ELSE IF score * 10 < 7 * Scale THEN "Moderate Risk"
    ELSE "High Risk"

_get_risk_tier(score) ==
    IF score * 10 <= 3 * Scale THEN "Safe"
    ELSE IF score * 10 <= 7 * Scale THEN "Moderate Risk"
    ELSE "High Risk"

(***************************************************************************)
(* Number formatting.  Format2f is f"{x:.2f}" of a score held in units of  *)
(* 1/Scale: the nearest hundredth, a tie going to the even hundredth (no   *)
(* score the pipeline produces is a tie).  Format0f is f"{x:.0f}" of       *)
(* (multiplier - 1) * 100 for a multiplier held in twentieths.             *)
(***************************************************************************)
RoundHundredths(score) ==
    LET q == score \div Hundredth
        r == score % Hundredth
    IN  IF 2 * r > Hundredth \/ (2 * r = Hundredth /\ q % 2 = 1)
        THEN q + 1
        ELSE q

Format2f(score) ==
    LET h == RoundHundredths(score) IN
    ToString(h \div 100) \o "." \o
    (IF h % 100 < 10 THEN "0" ELSE "") \o ToString(h % 100)

Format0f(multiplier) == ToString(5 * multiplier - 100)

(***************************************************************************)
(* _generate_explanation (lines 113-169).                                  *)
(***************************************************************************)
risk_explanations ==
    [unverified_contract |->
        "The contract source code is not verified on Etherscan, making it difficult to audit its functionality.",
     mint_privileges |->
        "The contract owner has the ability to mint new tokens, which could lead to token supply manipulation.",
     high_mint_count |->
        "There have been multiple token minting events, indicating potential supply inflation.",
     unlocked_liquidity |->
        "The liquidity is not locked, allowing for potential rug pulls or token dumps.",
     honeypot_detected |->
        "The contract exhibits characteristics of a honeypot, which may prevent token selling.",
     new_contract |->
        "This is a newly deployed contract with limited history and community trust."]

OverviewLine(text) == "Analysis Overview: " \o text

AssessmentLine(tier, score) ==
    "Risk Assessment: This address has been classified as " \o tier \o
    " with a risk score of " \o Format2f(score)

FactorBullet(factor, weight) ==
    "- " \o risk_explanations[factor] \o
    " (Impact: " \o Format2f(weight * Hundredth) \o ")"

CombinationBullet(factor1, factor2, multiplier) ==
    "- Combined impact of " \o factor1 \o " and " \o factor2 \o
    " increases overall risk by " \o Format0f(multiplier) \o "%"

RECURSIVE FactorBullets(_, _)
FactorBullets(factors, k) ==
    IF k > Len(factors) THEN <<>>
    ELSE <<FactorBullet(factors[k][1], factors[k][2])>> \o
         FactorBullets(factors, k + 1)

\* Whether the pair of factors gets a combination bullet (line 149).
ComboListed(combinations, factor1, factor2) ==
    SortedCombo(factor1, factor2) \in DOMAIN combinations

\* The inner loop run over the whole list (every ordered pair i # j).
RECURSIVE AppliedCombosAllPairs(_, _, _)
AppliedCombosAllPairs(combinations, factors, k) ==
    LET n == Len(factors) IN
    IF k >= n * n THEN <<>>
    ELSE LET i == (k \div n) + 1
             j == (k % n) + 1
         IN  IF j # i /\ ComboListed(combinations, factors[i][1], factors[j][1])
             THEN <<CombinationBullet(factors[i][1], factors[j][1],
                        combinations[SortedCombo(factors[i][1], factors[j][1])])>>
                  \o AppliedCombosAllPairs(combinations, factors, k + 1)
             ELSE AppliedCombosAllPairs(combinations, factors, k + 1)

\* applied_combos (lines 145-153): the same walk over the pairs i < j.
RECURSIVE AppliedCombos(_, _, _)
AppliedCombos(combinations, factors, k) ==
    LET n == Len(factors) IN
    IF k >= n * n THEN <<>>
    ELSE LET i == (k \div n) + 1
             j == (k % n) + 1
         IN  IF j > i /\ ComboListed(combinations, factors[i][1], factors[j][1])
             THEN <<CombinationBullet(factors[i][1], factors[j][1],
                        combinations[SortedCombo(factors[i][1], factors[j][1])])>>
                  \o AppliedCombos(combinations, factors, k + 1)
             ELSE AppliedCombos(combinations, factors, k + 1)

RecommendHigh ==
    "Recommendation: Exercise extreme caution when interacting with this address. Consider avoiding transactions unless you fully understand the risks."

RecommendModerate ==
    "Recommendation: Proceed with caution and conduct thorough due diligence before any significant interactions."

RecommendSafe ==
    "Recommendation: While no major risks were detected, always follow standard security practices when conducting transactions."

\* The tier compared with the short names "High" and "Moderate".
RecommendationShortNames(tier) ==
    IF tier = "High" THEN RecommendHigh
    ELSE IF tier = "Moderate" THEN RecommendModerate
    ELSE RecommendSafe

Recommendation(tier) ==
    IF tier = "High Risk" THEN RecommendHigh
    ELSE IF tier = "Moderate Risk" THEN RecommendModerate
    ELSE RecommendSafe

_generate_explanation(combinations, factors, score, tier, text) ==
    <<OverviewLine(text), AssessmentLine(tier, score)>> \o
    (IF factors # <<>>
        THEN <<"Detected Risk Factors:">> \o FactorBullets(factors, 1) \o
             (LET applied_combos == AppliedCombos(combinations, factors, 0) IN
              IF applied_combos # <<>>
              THEN <<"\nRisk Factor Combinations:">> \o applied_combos
              ELSE <<>>)
        ELSE <<"No significant risk factors were detected.">>) \o
    <<Recommendation(tier)>>

(***************************************************************************)
(* Python values.  A dict is a function on its keys; {} is the empty       *)
(* function.  None is the empty tuple, and a value that may be None is     *)
(* held as Some(value), so None differs from every value.                  *)
(***************************************************************************)
EmptyDict == <<>>
None == <<>>
Some(value) == <<value>>

\* dict.update(other): the keys of other win.
Update(dict, other) == other @@ dict

\* dict.get(key): the value, or None.
Get(dict, key) == IF key \in DOMAIN dict THEN Some(dict[key]) ELSE None

(***************************************************************************)
(* Module-level state of the service: blockchain_utils.KNOWN_PROTOCOLS     *)
(* (lines 702-721) and the cache of the Config singleton (config.py 116).  *)
(***************************************************************************)
KnownProtocolsTable ==
    ("0x7a250d5630b4cf539739df2c5dacb4c659f2488d" :> "Uniswap V2: Router") @@
    ("0x811beed0119b4afce20d2583eb608c6f7af1954f" :> "Uniswap V2: SHIB-WETH") @@
    ("0xd9e1ce17f2641f24ae83637ab66a2cca9c378b9f" :> "SushiSwap: Router") @@
    ("0x24d3dd4a62e29770cf98810b09f89d3a90279e7a" :> "SushiSwap: SHIB-WETH") @@
    ("0x03f7724180aa6b939894b5ca4314783b0b36b329" :> "ShibaSwap: Router") @@
    ("0x1111111254fb6c44bac0bed2854e76f90643097d" :> "1inch Router") @@
    ("0x7d2768de32b0b80b7a3454c06bdac94a69ddc7a9" :> "Aave: Lending Pool") @@
    ("0x7b39917f9562c8bc83c7a6c2950ff571375d505d" :> "Bone: ShibaSwap Token") @@
    ("0x8faf958e36c6970497386118030e6297fff8d275" :> "Leash: ShibaSwap Token")

\* The modules are imported (the tables above are in place) and no request
\* is being served.
ServiceLoaded ==
    /\ KNOWN_PROTOCOLS = KnownProtocolsTable
    /\ config_cache = EmptyDict

NoTasks == <<>>

\* No helper is being called on its own.
NoSearch == <<>>
NoScan == <<>>
NoCall == <<>>
HelpersIdle == search = NoSearch /\ scan = NoScan /\ call = NoCall

(***************************************************************************)
(* The state after construction: the pipeline's tables are set, no call    *)
(* has been made, and the caller holds some feature dict and text.         *)
(***************************************************************************)
NoResult == [risk_score |-> 0, risk_tier |-> "", explanation |-> <<>>]

Init ==
    /\ risk_weights = RiskWeightsTable
    /\ risk_combinations = RiskCombinationsTable
    /\ pc = "idle"
    /\ address_data \in [features : FeatureSets]
    /\ features_text \in FeatureTexts
    /\ risk_factors = <<>>
    /\ risk_score = 0
    /\ applied_combinations = {}
    /\ result = NoResult
    /\ calls = 0
    /\ ServiceLoaded
    /\ HelpersIdle
    /\ task = NoTasks

\* The multiplier taken out of the dict when it is applied (pop for lookup).
CombinationsAfterCallPopping(combinations, applied) ==
    [combo \in (DOMAIN combinations) \ applied |-> combinations[combo]]

(***************************************************************************)
(* analyze_address reads self.risk_weights and self.risk_combinations by   *)
(* subscript and membership only (lines 57-67, 81-82, 149-152): it assigns *)
(* no attribute of self and calls no mutating method of the two dicts.     *)
(* The tables a call leaves behind, given the combinations it applied:     *)
(***************************************************************************)
CombinationsAfterCall(combinations, applied) == combinations

(***************************************************************************)
(* analyze_address (lines 43-102), one call from entry to return.  The     *)
(* locals are shown as they stand at the return statement.                 *)
(***************************************************************************)
analyze_address ==
    /\ pc = "idle"
    /\ calls < MaxCalls
    /\ calls' = calls + 1
    /\ pc' = "returned"
    /\ LET features == address_data.features
           locals == ScoreAddress(risk_weights, risk_combinations, features)
           risk_tier == _get_risk_tier(locals.risk_score)
       IN  /\ risk_factors' = locals.risk_factors
           /\ risk_score' = locals.risk_score
           /\ applied_combinations' = locals.applied_combinations
           /\ result' = [risk_score |-> locals.risk_score,
                         risk_tier |-> risk_tier,
                         explanation |->
                             _generate_explanation(risk_combinations,
                                 locals.risk_factors, locals.risk_score,
                                 risk_tier, features_text)]
           /\ risk_combinations' =
                  CombinationsAfterCall(risk_combinations,
                                        locals.applied_combinations)
    /\ UNCHANGED <<risk_weights, address_data, features_text>>
    /\ UNCHANGED service_vars

\* The caller takes the returned tuple; the call's locals are gone, the
\* pipeline object and the caller's dict stay.
ReturnToCaller ==
    /\ pc = "returned"
    /\ pc' = "idle"
    /\ risk_factors' = <<>>
    /\ risk_score' = 0
    /\ applied_combinations' = {}
    /\ result' = NoResult
    /\ UNCHANGED <<risk_weights, risk_combinations, address_data,
                   features_text, calls>>
    /\ UNCHANGED service_vars

\* Between calls the caller changes one entry of its feature dict, as the
\* tests do (features = base_features.copy(); features[key] = value).
SetFeature ==
    /\ pc = "idle"
    /\ calls < MaxCalls
    /\ \E key \in DOMAIN address_data.features :
          \E value \in FeatureValues(key) \ {address_data.features[key]} :
              address_data' =
                  [features |-> [address_data.features EXCEPT ![key] = value]]
    /\ UNCHANGED <<risk_weights, risk_combinations, pc, features_text,
                   risk_factors, risk_score, applied_combinations, result, calls>>
    /\ UNCHANGED service_vars

\* Between calls the caller passes another text.
SetFeaturesText ==
    /\ pc = "idle"
    /\ calls < MaxCalls
    /\ \E text \in FeatureTexts \ {features_text} : features_text' = text
    /\ UNCHANGED <<risk_weights, risk_combinations, pc, address_data,
                   risk_factors, risk_score, applied_combinations, result, calls>>
    /\ UNCHANGED service_vars

Next == analyze_address \/ ReturnToCaller \/ SetFeature \/ SetFeaturesText

Spec == Init /\ [][Next]_vars

(***************************************************************************)
(* Part 2: the service around the pipeline.                                *)
(*                                                                         *)
(* blockchain_utils.fetch_address_data gathers the on-chain data of one    *)
(* address from the node and the indexers and scores it additively; the    *)
(* handlers of main.py validate the address, call fetch_address_data and   *)
(* then the pipeline of Part 1; the handlers of app.py return what         *)
(* fetch_address_data returns.                                             *)
(*                                                                         *)
(* A request is a task of the event loop.  A task runs without             *)
(* interruption from one await to the next, so an action below is the code *)
(* from the completion of one upstream fetch to the start of the next.     *)
(* What the upstream answers is the environment's choice: an answer is a   *)
(* failure (the helper's try block raised: timeout, non-200 status,        *)
(* malformed body) or the data of a successful fetch.                      *)
(***************************************************************************)
MainEntries == {"main.py POST /analyze", "main.py GET /analyze/{address}"}
AppEntries == {"app.py GET /analyze/{address}", "app.py POST /analyze"}
Entries == MainEntries \cup AppEntries

\* Web3.is_address(address), the test of main.py lines 91 and 185: a
\* 40-digit hex string passes, anything else does not.
ValidAddresses == {"0x7a250d5630b4cf539739df2c5dacb4c659f2488d"}
InvalidAddresses == {"not-an-address"}
IsAddress(address) == address \in ValidAddresses

FailureKinds == {"timeout", "non-200 status", "malformed body"}
Failure(why) == [ok |-> FALSE, why |-> why]
Ok(value) == [ok |-> TRUE, value |-> value]

(***************************************************************************)
(* The helpers of blockchain_utils.py, each as the value it returns for    *)
(* an upstream answer.  Every helper wraps its body in try/except and      *)
(* returns a fixed value when anything in it raises.                       *)
(***************************************************************************)
\* lines 415-421: code != '0x' and code != b''; False when get_code raises.
is_contract(answer) == IF answer.ok THEN answer.value ELSE FALSE

\* lines 1299-1375 with a failed lookup reported as an age of 30 days
get_contract_age_failed_is_old(answer) ==
    IF answer.ok
    THEN [creation_date |-> Some(answer.value.creation_date),
          age_days |-> answer.value.age_days]
    ELSE [creation_date |-> None, age_days |-> 30]

\* lines 1299-1375.  The return of line 1363 is at the level of the try
\* block, so it follows both lookups; it reads creation_time and age_days,
\* which are bound only when a lookup gave a creation time, and the
\* NameError of the other case is caught by line 1374.  The return of line
\* 1368 is never reached.
get_contract_age(answer) ==
    IF answer.ok
    THEN [creation_date |-> Some(answer.value.creation_date),
          age_days |-> answer.value.age_days]
    ELSE EmptyDict

\* lines 423-446.  The params dict of line 427 reads
\* config.ETHERSCAN_API_KEY; the Config object (config.py 56-147) has the
\* attributes etherscan_api_key and etherscan_api and no attribute of that
\* name, so the AttributeError is caught by line 445 before any request is
\* made, on every call.
get_contract_info ==
    [is_verified |-> FALSE, contract_name |-> None, compiler |-> None]

\* lines 448-465: config.ETHERSCAN_API_KEY again (line 456).
get_creator_info == None

\* lines 345-366: the sender of the first transaction; None on failure and
\* when the indexer lists no transaction.
get_contract_creator(answer) ==
    IF answer.ok /\ answer.value # <<>> THEN Some(answer.value[1]) ELSE None

\* lines 1869-1876: creator and owner and creator.lower() == owner.lower().
\* Python's `and` yields its first falsy operand.
compare_owner_deployer(answer) ==
    LET creator == get_contract_creator(answer)
        owner == get_creator_info
    IN  IF creator = None THEN None
        ELSE IF owner = None THEN None
        ELSE Some(creator = owner)

\* lines 368-413
get_token_info(answer) == IF answer.ok THEN answer.value ELSE EmptyDict

\* lines 886-1091 (the scan itself is modelled in Part 4)
get_token_market_data(answer) == IF answer.ok THEN answer.value ELSE EmptyDict

\* lines 529-655
get_token_holders_info(answer) == IF answer.ok THEN answer.value ELSE EmptyDict

\* lines 467-508
get_mint_activity(answer) ==
    IF answer.ok
    THEN answer.value
    ELSE [mint_event_count |-> 0, has_mint_privileges |-> FALSE]

\* lines 1460-1492
check_liquidity_lock(answer) ==
    IF answer.ok THEN [lp_locked |-> answer.value] ELSE [lp_locked |-> FALSE]

\* lines 1377-1399
get_burn_events(answer) == IF answer.ok THEN answer.value ELSE 0

\* lines 1401-1458 (whole ETH in the model)
get_24h_transfer_volume(answer) == IF answer.ok THEN answer.value ELSE 0

\* The honeypot check reading a failed simulation as a honeypot.
simulate_honeypot_failing_closed(answer) ==
    IF answer.ok THEN answer.value ELSE TRUE

\* lines 510-527
simulate_honeypot(answer) == IF answer.ok THEN answer.value ELSE FALSE

\* lines 1494-1663
get_wallet_metrics(answer) == IF answer.ok THEN answer.value ELSE EmptyDict

\* lines 1665-1786
get_defi_interactions(answer) == IF answer.ok THEN answer.value ELSE EmptyDict

\* lines 297-318: the transaction list, [] on failure.
fetch_transactions(answer) == IF answer.ok THEN answer.value ELSE <<>>

\* lines 320-343: the source record, None on failure and when the indexer
\* has no record.
fetch_contract_data(answer) ==
    IF answer.ok /\ answer.value # <<>> THEN Some(answer.value[1]) ELSE None

(***************************************************************************)
(* What the upstream can answer.  The data of a successful fetch is kept   *)
(* small: ages on both sides of the two new-contract thresholds (7 days in *)
(* the pipeline, 30 days here), mint counts on both sides of the           *)
(* pipeline's threshold of 10.                                             *)
(***************************************************************************)
TokenMetadata ==
    [name |-> "Token", symbol |-> "TKN", decimals |-> 18, total_supply |-> 1000]

MarketData ==
    [market_cap |-> 0, price_usd |-> 0, price_eth |-> 0, volume_24h |-> 0,
     total_liquidity_eth |-> 0, main_pool_address |-> None, dex_data |-> <<>>]

HolderInfo ==
    [holder_activity |->
         [active_addresses |-> 0, buy_sell_ratio |-> "0:0", avg_transaction |-> 0],
     whale_analysis |->
         [large_transactions |-> 0, accumulation_events |-> 0, disposal_events |-> 0],
     contract_interactions |->
         [defi_interactions |-> 0, unique_contracts |-> 0, top_contracts |-> <<>>],
     trading_patterns |-> [avg_holding_time |-> "0s", active_pairs |-> 0]]

WalletMetrics ==
    [balance |-> 1, total_transactions |-> 2,
     first_tx_timestamp |-> Some("01/01/2024"),
     last_tx_timestamp |-> Some("01/02/2024"),
     unique_interacted_addresses |-> 1, incoming_tx_count |-> 1,
     outgoing_tx_count |-> 1, failed_tx_count |-> 0,
     total_received_eth |-> 2, total_sent_eth |-> 1, avg_gas_used |-> 21000,
     total_gas_spent_eth |-> 0, token_holdings |-> <<>>,
     defi_interactions |-> {}, nft_holdings |-> 0, nft_transactions |-> 0,
     wallet_age_days |-> 1]

DefiInteractions ==
    [protocols |-> EmptyDict, total_interactions |-> 0,
     total_value_locked |-> 0, last_interaction |-> None]

ContractAges ==
    {[creation_date |-> "2024-01-01T00:00:00", age_days |-> days] :
        days \in {29, 30}}

MintActivity == [mint_event_count |-> 11, has_mint_privileges |-> TRUE]

FullAnswers ==
    [is_contract |-> {Failure(why) : why \in FailureKinds} \cup {Ok(TRUE), Ok(FALSE)},
     get_contract_age |-> {Failure("timeout")} \cup {Ok(age) : age \in ContractAges},
     get_token_info |-> {Failure("timeout"), Ok(TokenMetadata)},
     get_token_market_data |-> {Failure("timeout"), Ok(MarketData)},
     get_token_holders_info |-> {Failure("timeout"), Ok(HolderInfo)},
     get_mint_activity |-> {Failure("timeout"), Ok(MintActivity)},
     check_liquidity_lock |-> {Failure("timeout"), Ok(TRUE)},
     get_burn_events |-> {Failure("timeout"), Ok(2)},
     get_24h_transfer_volume |-> {Failure("timeout"), Ok(5)},
     get_contract_creator |->
         {Failure("timeout"), Ok(<<"0x03f7724180aa6b939894b5ca4314783b0b36b329">>)},
     simulate_honeypot |-> {Failure("timeout"), Ok(TRUE)},
     get_wallet_metrics |-> {Failure("timeout"), Ok(WalletMetrics)},
     get_defi_interactions |-> {Failure("timeout"), Ok(DefiInteractions)}]

\* The answers when several requests are served at once: fewer per fetch,
\* every branch of the code still taken.
FewAnswers ==
    [is_contract |-> {Ok(TRUE), Ok(FALSE)},
     get_contract_age |->
         {Ok([creation_date |-> "2024-01-01T00:00:00", age_days |-> 6])},
     get_token_info |-> {Failure("timeout"), Ok(TokenMetadata)},
     get_token_market_data |-> {Ok(MarketData)},
     get_token_holders_info |-> {Ok(HolderInfo)},
     get_mint_activity |-> {Ok(MintActivity)},
     check_liquidity_lock |-> {Ok(TRUE)},
     get_burn_events |-> {Ok(2)},
     get_24h_transfer_volume |-> {Ok(5)},
     get_contract_creator |-> {Failure("timeout")},
     simulate_honeypot |-> {Ok(TRUE), Ok(FALSE)},
     get_wallet_metrics |-> {Ok(WalletMetrics)},
     get_defi_interactions |-> {Ok(DefiInteractions)}]

Answers(name) ==
    IF Cardinality(DOMAIN task) > 1 THEN FewAnswers[name] ELSE FullAnswers[name]

\* str(e) of an exception that is not a failed fetch.
ExceptionText == "unexpected"

(***************************************************************************)
(* fetch_address_data, lines 72-85 and 265-295: the responses.             *)
(***************************************************************************)
InitialResponse ==
    [type |-> "Unknown", risk_score |-> 0, risk_tier |-> "Unknown",
     explanation |-> <<>>, summary |-> EmptyDict, features |-> EmptyDict,
     is_contract |-> FALSE, is_token |-> FALSE, token_info |-> None,
     wallet_metrics |-> None, defi_activity |-> None]

\* The except clause that builds its dict from the response under
\* construction instead of from scratch.
ErrorResponseKeepingFields(response, line) ==
    [response EXCEPT !.type = "Error", !.explanation = <<line>>]

\* lines 268-280, 283-295, and main.py lines 94-106, 166-178
ErrorResponse(response, line) ==
    [type |-> "Error", risk_score |-> 0, risk_tier |-> "Unknown",
     explanation |-> <<line>>, summary |-> EmptyDict, features |-> EmptyDict,
     is_contract |-> FALSE, is_token |-> FALSE, token_info |-> None,
     wallet_metrics |-> None, defi_activity |-> None]

(***************************************************************************)
(* The additive score of fetch_address_data, lines 176-236.                *)
(*                                                                         *)
(* Scores are again in units of 1/Scale.  The float sums of the source     *)
(* agree with the decimal sums in every comparison and in the two printed  *)
(* decimals, with one exception: 0.35 + 0.20 + 0.15 is the double          *)
(* 0.7000000000000001, which is > 0.7.  FloatAdd adds one unit where the   *)
(* double sum exceeds the decimal sum, so the comparisons of lines 225-236 *)
(* come out as in the source.                                              *)
(***************************************************************************)
AggregationWeights ==
    [unverified_contract |-> 35, unlocked_liquidity |-> 30, new_contract |-> 20,
     mint_privileges |-> 15, honeypot_result |-> 25,
     unverified_new_combination |-> 15]

AggregationNewContractDays == 30
AggregationCapHundredths == 99

FloatAdd(score, hundredths) ==
    IF score = 55 * Hundredth /\ hundredths = 15
    THEN score + hundredths * Hundredth + 1
    ELSE score + hundredths * Hundredth

\* line 197 with <= for <
IsNewForAggregationInclusive(features) ==
    features.contract_age_days <= AggregationNewContractDays

\* line 197 (and line 207)
IsNewForAggregation(features) ==
    features.contract_age_days < AggregationNewContractDays

\* line 212 without the cap
CapScoreUncapped(score) == score

\* line 212: risk_score = min(risk_score, 0.99)
CapScore(score) ==
    IF score < AggregationCapHundredths * Hundredth
    THEN score
    ELSE AggregationCapHundredths * Hundredth

\* lines 177-212: the locals risk_factors and risk_score at line 212.
AggregationRisk(features, is_token) ==
    LET w == AggregationWeights
        unverified == ~features.verified_contract
        unlocked == ~features.lp_locked /\ is_token
        new == IsNewForAggregation(features)
        mint == features.has_mint_privileges
        honeypot == features.honeypot_result
        s1 == IF unverified THEN FloatAdd(0, w.unverified_contract) ELSE 0
        s2 == IF unlocked THEN FloatAdd(s1, w.unlocked_liquidity) ELSE s1
        s3 == IF new THEN FloatAdd(s2, w.new_contract) ELSE s2
        s4 == IF mint THEN FloatAdd(s3, w.mint_privileges) ELSE s3
        s5 == IF honeypot THEN FloatAdd(s4, w.honeypot_result) ELSE s4
        s6 == IF unverified /\ new
              THEN FloatAdd(s5, w.unverified_new_combination)
              ELSE s5
    IN  [risk_factors |->
             (IF unverified
              THEN <<"The contract source code is not verified on Etherscan, making it difficult to audit its functionality. (Impact: 0.35)">>
              ELSE <<>>) \o
             (IF unlocked
              THEN <<"The liquidity is not locked, allowing for potential rug pulls or token dumps. (Impact: 0.30)">>
              ELSE <<>>) \o
             (IF new
              THEN <<"This is a newly deployed contract with limited history and community trust. (Impact: 0.20)">>
              ELSE <<>>) \o
             (IF mint
              THEN <<"The contract has minting privileges, which could be used to inflate the token supply. (Impact: 0.15)">>
              ELSE <<>>) \o
             (IF honeypot
              THEN <<"The contract shows patterns similar to known honeypot scams. (Impact: 0.25)">>
              ELSE <<>>) \o
             (IF unverified /\ new
              THEN <<"\nRisk Factor Combinations:",
                     "- Combined impact of unverified_contract and new_contract increases overall risk by 15%">>
              ELSE <<>>),
         risk_score |-> CapScore(s6)]

\* lines 225, 228-236: the tier by > 0.7 and > 0.3.
AggregationTier(score) ==
    IF score * 10 > 7 * Scale THEN "High Risk"
    ELSE IF score * 10 > 3 * Scale THEN "Moderate Risk"
    ELSE "Safe"

\* lines 215-219
AggregationOverview(features) ==
    "Analysis Overview: This is an " \o
    (IF ~features.verified_contract THEN "unverified" ELSE "verified") \o
    " contract created " \o ToString(features.contract_age_days) \o
    " days ago. Liquidity is " \o
    (IF ~features.lp_locked THEN "not " ELSE "") \o "locked. Honeypot test " \o
    (IF features.honeypot_result THEN "failed" ELSE "passed") \o
    ". There were " \o ToString(features.burn_event_count) \o " burn events"

\* lines 227-233
AggregationRecommendation(score) ==
    "\nRecommendation: " \o
    (IF score * 10 > 7 * Scale
     THEN "Exercise extreme caution when interacting with this address. Consider avoiding transactions unless you fully understand the risks."
     ELSE IF score * 10 > 3 * Scale
     THEN "Proceed with caution and conduct thorough due diligence before any significant interactions."
     ELSE "This address appears to be relatively safe based on our analysis, but always exercise normal caution.")

\* lines 221-236: the response once the features are in place.
ScoredResponse(response) ==
    LET features == response.features
        risk == AggregationRisk(features, response.is_token)
        tier == AggregationTier(risk.risk_score)
    IN  [response EXCEPT
            !.explanation =
                <<AggregationOverview(features),
                  "Risk Assessment: This address has been classified as " \o
                      tier \o " with a risk score of " \o
                      Format2f(risk.risk_score),
                  "\nDetected Risk Factors:">> \o
                risk.risk_factors \o
                <<AggregationRecommendation(risk.risk_score)>>,
            !.risk_score = risk.risk_score,
            !.risk_tier = tier]

\* lines 161-173: the features of a contract, from the locals.  mint_info
\* and lock_info are bound only on the token branch ('mint_info' in
\* locals()).
ContractFeatures(locals) ==
    [verified_contract |->
         IF locals.contract_info # EmptyDict
         THEN locals.contract_info.is_verified ELSE FALSE,
     owner_address |-> locals.owner_address,
     is_owner_deployer |-> locals.is_owner_deployer,
     has_mint_privileges |->
         IF "mint_info" \in DOMAIN locals
         THEN locals.mint_info.has_mint_privileges ELSE FALSE,
     mint_event_count |->
         IF "mint_info" \in DOMAIN locals
         THEN locals.mint_info.mint_event_count ELSE 0,
     honeypot_result |-> locals.honeypot_result,
     lp_locked |->
         IF "lock_info" \in DOMAIN locals
         THEN locals.lock_info.lp_locked ELSE FALSE,
     contract_age_days |->
         IF locals.contract_age # EmptyDict
         THEN locals.contract_age.age_days ELSE 0,
     burn_event_count |-> locals.burn_events,
     transfer_volume_24h |-> locals.transfer_volume,
     is_contract |-> TRUE]

\* lines 251-263
WalletFeatures ==
    [verified_contract |-> FALSE, owner_address |-> None,
     is_owner_deployer |-> Some(FALSE), has_mint_privileges |-> FALSE,
     mint_event_count |-> 0, honeypot_result |-> FALSE, lp_locked |-> FALSE,
     contract_age_days |-> 0, burn_event_count |-> 0,
     transfer_volume_24h |-> 0, is_contract |-> FALSE]

(***************************************************************************)
(* main.py: format_features_text (lines 275-312) and the rest of the       *)
(* handler after the fetch (lines 112-179, 206-273).                       *)
(***************************************************************************)
\* f"{x:.2f}" of a whole number
FormatWhole2f(n) == ToString(n) \o ".00"

format_features_text(features, wallet_metrics) ==
    IF features.is_contract
    THEN "This is a" \o
         (IF ~features.verified_contract THEN "n unverified" ELSE " verified") \o
         " contract created " \o ToString(features.contract_age_days) \o
         " days ago" \o
         (IF features.owner_address # None
          THEN " by " \o features.owner_address[1] \o
               (IF features.is_owner_deployer = Some(TRUE)
                THEN " (who is also the deployer)" ELSE "")
          ELSE "") \o
         (IF features.has_mint_privileges
          THEN ". The owner has mint privileges and there have been " \o
               ToString(features.mint_event_count) \o " mint events"
          ELSE "") \o
         ". Liquidity is " \o (IF ~features.lp_locked THEN "not " ELSE "") \o
         "locked" \o
         ". Honeypot test " \o
         (IF features.honeypot_result THEN "failed" ELSE "passed") \o
         ". There were " \o ToString(features.burn_event_count) \o
         " burn events" \o
         (IF features.transfer_volume_24h > 0
          THEN " and " \o FormatWhole2f(features.transfer_volume_24h) \o
               " ETH in transfer volume in the last 24 hours"
          ELSE "")
    ELSE "This is a regular wallet address with " \o
         FormatWhole2f(IF wallet_metrics # None
                       THEN wallet_metrics.total_sent_eth +
                            wallet_metrics.total_received_eth
                       ELSE 0) \o
         " ETH in transfer volume"

\* main.py lines 132-147: the summary of the handler's response.
HandlerSummary(features) ==
    [verified |-> features.verified_contract,
     creator_address |-> features.owner_address,
     total_transactions |-> 0,
     unique_interactions |-> 0,
     total_value |-> features.transfer_volume_24h,
     is_contract |-> features.is_contract,
     contract_age_days |->
         IF features.is_contract THEN Some(features.contract_age_days) ELSE None,
     mint_events |->
         IF features.is_contract THEN Some(features.mint_event_count) ELSE None,
     burn_events |->
         IF features.is_contract THEN Some(features.burn_event_count) ELSE None,
     lp_locked |->
         IF features.is_contract THEN Some(features.lp_locked) ELSE None]

\* main.py lines 113, 207: address_data.get("type") == "Error"
IsErrorResponse(data) == data.type = "Error"

\* The handler's answer once fetch_address_data has returned address_data:
\* the HTTP response, and the pipeline's multiplier table after the call.
\* `fault` is an exception raised in lines 119-163 (it is not a failed
\* fetch); the except clause of line 165 answers it.
\* app.py lines 23-25 and 31-33 return the fetched dict as it is.
HandlerTail(entry, data, fault, weights, combinations) ==
    IF entry \in AppEntries
    THEN [http |-> [status_code |-> 200, content |-> data],
          risk_combinations |-> combinations]
    ELSE IF IsErrorResponse(data)
    THEN [http |-> [status_code |-> 500, content |-> data],
          risk_combinations |-> combinations]
    ELSE IF fault
    THEN [http |-> [status_code |-> 500,
                    content |-> ErrorResponse(data,
                        "Error analyzing address: " \o ExceptionText)],
          risk_combinations |-> combinations]
    ELSE LET text == format_features_text(data.features,
                                          data.wallet_metrics)
             locals == ScoreAddress(weights, combinations,
                                    data.features)
             tier == _get_risk_tier(locals.risk_score)
         IN  [http |->
                  [status_code |-> 200,
                   content |->
                       [type |-> data.type,
                        risk_score |-> locals.risk_score,
                        risk_tier |-> tier,
                        explanation |->
                            _generate_explanation(combinations,
                                locals.risk_factors, locals.risk_score,
                                tier, text),
                        summary |-> HandlerSummary(data.features),
                        features |-> data.features,
                        is_contract |-> data.is_contract,
                        is_token |-> data.is_token,
                        token_info |-> data.token_info,
                        wallet_metrics |-> data.wallet_metrics,
                        defi_activity |-> data.defi_activity]],
              risk_combinations |->
                  CombinationsAfterCall(combinations,
                                        locals.applied_combinations)]

\* Whether an exception can be raised in the handler after the fetch: the
\* statements of main.py lines 119-163 are reached with a response that is
\* not an Error.
HandlerFaults(entry, data) ==
    IF entry \in MainEntries /\ ~IsErrorResponse(data)
    THEN BOOLEAN ELSE {FALSE}

(***************************************************************************)
(* The tasks.  A task's record holds the locals of its handler and of its  *)
(* call of fetch_address_data, and, for the properties, what the           *)
(* environment did to it: the upstream's answers and the exceptions.       *)
(***************************************************************************)
NewTask(entry, address) ==
    [entry |-> entry,
     address |-> address,
     pc |-> "received",       \* the await the task is suspended at
     response |-> None,       \* the local `response` of fetch_address_data
     locals |-> EmptyDict,    \* its other locals, by name
     http |-> None,           \* the HTTP response sent
     answers |-> EmptyDict,   \* what the upstream answered to each fetch made
     raised |-> None,         \* the exception raised in fetch_address_data
     fault |-> FALSE,         \* an exception was raised in the handler
     interleaved |-> FALSE]   \* it ran while another task was suspended

Requests ==
    {NewTask(entry, address) :
        entry \in Entries, address \in ValidAddresses \cup InvalidAddresses}

\* main.py lines 91-107 and 185-201
InvalidAddressResponse ==
    [status_code |-> 400,
     content |-> ErrorResponse(InitialResponse, "Invalid Ethereum address format")]

\* main.py tests Web3.is_address (lines 91, 185); app.py (lines 21-35) and
\* fetch_address_data (lines 70-91) have no test.
ValidatesAddress(entry) == entry \in MainEntries

\* The handler is entered: an address that fails validation is answered at
\* once; otherwise fetch_address_data is called, builds its response
\* (lines 73-85) and awaits is_contract.
enter_handler(t) ==
    IF ValidatesAddress(t.entry) /\ ~IsAddress(t.address)
    THEN [t EXCEPT !.pc = "done", !.http = InvalidAddressResponse]
    ELSE [t EXCEPT !.pc = "is_contract", !.response = InitialResponse]

\* lines 89-91, up to the first await of the branch.
after_is_contract(t, answer) ==
    LET is_contract_addr == is_contract(answer) IN
    [t EXCEPT
        !.pc = IF is_contract_addr THEN "get_contract_age"
               ELSE "get_wallet_metrics",
        !.response = [@ EXCEPT !.is_contract = is_contract_addr,
                               !.type = IF is_contract_addr
                                        THEN "Contract" ELSE "Wallet"],
        !.answers = ("is_contract" :> answer) @@ @]

\* lines 95-109: the age, then get_contract_info (which returns without a
\* request), up to the await of get_token_info.
after_get_contract_age(t, answer) ==
    LET contract_age == get_contract_age(answer)
        contract_info == get_contract_info
        summary1 ==
            IF contract_age # EmptyDict
            THEN Update(t.response.summary,
                     [creation_date |-> contract_age.creation_date,
                      contract_age_days |-> contract_age.age_days])
            ELSE t.response.summary
        summary2 ==
            IF contract_info # EmptyDict
            THEN Update(summary1,
                     [verified |-> contract_info.is_verified,
                      contract_name |-> contract_info.contract_name])
            ELSE summary1
    IN  [t EXCEPT
            !.pc = "get_token_info",
            !.response = [@ EXCEPT !.summary = summary2],
            !.locals = [contract_age |-> contract_age,
                        contract_info |-> contract_info] @@ @,
            !.answers = ("get_contract_age" :> answer) @@ @]

\* lines 111-114 and 141-146
after_get_token_info(t, answer) ==
    LET token_info == get_token_info(answer) IN
    IF token_info # EmptyDict
    THEN [t EXCEPT
             !.pc = "get_token_market_data",
             !.locals = [token_info |-> token_info] @@ @,
             !.answers = ("get_token_info" :> answer) @@ @]
    ELSE [t EXCEPT
             !.pc = "get_burn_events",
             !.response = [@ EXCEPT !.is_token = FALSE],
             !.locals = [token_info |-> token_info] @@ @,
             !.answers = ("get_token_info" :> answer) @@ @]

\* lines 115-118
after_get_token_market_data(t, answer) ==
    LET market_data == get_token_market_data(answer)
        token_info == IF market_data # EmptyDict
                      THEN Update(t.locals.token_info, market_data)
                      ELSE t.locals.token_info
    IN  [t EXCEPT
            !.pc = "get_token_holders_info",
            !.locals = [token_info |-> token_info,
                        market_data |-> market_data] @@ @,
            !.answers = ("get_token_market_data" :> answer) @@ @]

\* lines 120-123
after_get_token_holders_info(t, answer) ==
    LET holder_info == get_token_holders_info(answer)
        token_info == IF holder_info # EmptyDict
                      THEN Update(t.locals.token_info, holder_info)
                      ELSE t.locals.token_info
    IN  [t EXCEPT
            !.pc = "get_mint_activity",
            !.locals = [token_info |-> token_info,
                        holder_info |-> holder_info] @@ @,
            !.answers = ("get_token_holders_info" :> answer) @@ @]

\* lines 125-146: the mint activity, the token fields of the response, and
\* the test of line 145, which holds on this branch.
after_get_mint_activity(t, answer) ==
    LET mint_info == get_mint_activity(answer)
        token_info == IF mint_info # EmptyDict
                      THEN Update(t.locals.token_info, mint_info)
                      ELSE t.locals.token_info
    IN  [t EXCEPT
            !.pc = "check_liquidity_lock",
            !.response =
                [@ EXCEPT
                    !.type = "Token",
                    !.is_token = TRUE,
                    !.token_info = token_info,
                    !.summary = Update(@,
                        [total_supply |-> Get(token_info, "total_supply"),
                         total_holders |-> Get(token_info, "total_holders"),
                         market_cap |-> Get(token_info, "market_cap"),
                         price_usd |-> Get(token_info, "price_usd"),
                         total_liquidity_eth |->
                             Get(token_info, "total_liquidity_eth"),
                         volume_24h |-> Get(token_info, "volume_24h")])],
            !.locals = [token_info |-> token_info,
                        mint_info |-> mint_info] @@ @,
            !.answers = ("get_mint_activity" :> answer) @@ @]

\* lines 146-150
after_check_liquidity_lock(t, answer) ==
    LET lock_info == check_liquidity_lock(answer) IN
    [t EXCEPT
        !.pc = "get_burn_events",
        !.response =
            IF lock_info # EmptyDict
            THEN [@ EXCEPT !.summary =
                               Update(@, [lp_locked |-> lock_info.lp_locked])]
            ELSE @,
        !.locals = [lock_info |-> lock_info] @@ @,
        !.answers = ("check_liquidity_lock" :> answer) @@ @]

\* lines 152-154
after_get_burn_events(t, answer) ==
    LET burn_events == get_burn_events(answer) IN
    [t EXCEPT
        !.pc = "get_24h_transfer_volume",
        !.response = [@ EXCEPT !.summary =
                                   Update(@, [burn_events |-> burn_events])],
        !.locals = [burn_events |-> burn_events] @@ @,
        !.answers = ("get_burn_events" :> answer) @@ @]

\* lines 156-158 and 161-164: the volume, then the features dict up to the
\* await of compare_owner_deployer (get_creator_info returns without a
\* request).
after_get_24h_transfer_volume(t, answer) ==
    LET transfer_volume == get_24h_transfer_volume(answer) IN
    [t EXCEPT
        !.pc = "compare_owner_deployer",
        !.response = [@ EXCEPT !.summary =
                          Update(@, [transfer_volume_24h |-> transfer_volume])],
        !.locals = [transfer_volume |-> transfer_volume,
                    owner_address |-> get_creator_info] @@ @,
        !.answers = ("get_24h_transfer_volume" :> answer) @@ @]

\* lines 164-167
after_compare_owner_deployer(t, answer) ==
    [t EXCEPT
        !.pc = "simulate_honeypot",
        !.locals = [is_owner_deployer |-> compare_owner_deployer(answer)] @@ @,
        !.answers = ("get_contract_creator" :> answer) @@ @]

\* lines 167-236 and 264: the last fetch of a contract, the features, the
\* additive score, and the return.
after_simulate_honeypot(t, answer) ==
    LET locals == [honeypot_result |-> simulate_honeypot(answer)] @@ t.locals
    IN  [t EXCEPT
            !.pc = "returned",
            !.response = ScoredResponse(
                             [@ EXCEPT !.features = ContractFeatures(locals)]),
            !.locals = locals,
            !.answers = ("simulate_honeypot" :> answer) @@ @]

\* lines 238-243
after_get_wallet_metrics(t, answer) ==
    LET wallet_metrics == get_wallet_metrics(answer) IN
    [t EXCEPT
        !.pc = "get_defi_interactions",
        !.response =
            IF wallet_metrics # EmptyDict
            THEN [@ EXCEPT !.summary = Update(@, wallet_metrics),
                           !.wallet_metrics = wallet_metrics]
            ELSE @,
        !.locals = [wallet_metrics |-> wallet_metrics] @@ @,
        !.answers = ("get_wallet_metrics" :> answer) @@ @]

\* lines 245-265: the last fetch of a wallet, the fixed features, the return.
after_get_defi_interactions(t, answer) ==
    LET defi_activity == get_defi_interactions(answer)
        response ==
            IF defi_activity # EmptyDict
            THEN [t.response EXCEPT !.summary = Update(@, defi_activity),
                                    !.defi_activity = defi_activity]
            ELSE t.response
    IN  [t EXCEPT
            !.pc = "returned",
            !.response = [response EXCEPT !.features = WalletFeatures],
            !.locals = [defi_activity |-> defi_activity] @@ @,
            !.answers = ("get_defi_interactions" :> answer) @@ @]

\* The awaits of fetch_address_data, and the fetch each waits for.
FetchOf ==
    [is_contract |-> "is_contract",
     get_contract_age |-> "get_contract_age",
     get_token_info |-> "get_token_info",
     get_token_market_data |-> "get_token_market_data",
     get_token_holders_info |-> "get_token_holders_info",
     get_mint_activity |-> "get_mint_activity",
     check_liquidity_lock |-> "check_liquidity_lock",
     get_burn_events |-> "get_burn_events",
     get_24h_transfer_volume |-> "get_24h_transfer_volume",
     compare_owner_deployer |-> "get_contract_creator",
     simulate_honeypot |-> "simulate_honeypot",
     get_wallet_metrics |-> "get_wallet_metrics",
     get_defi_interactions |-> "get_defi_interactions"]

FetchAwaits == DOMAIN FetchOf

\* The task resumed at its await with the upstream's answer.
Resumed(t, answer) ==
    CASE t.pc = "is_contract" -> after_is_contract(t, answer)
      [] t.pc = "get_contract_age" -> after_get_contract_age(t, answer)
      [] t.pc = "get_token_info" -> after_get_token_info(t, answer)
      [] t.pc = "get_token_market_data" -> after_get_token_market_data(t, answer)
      [] t.pc = "get_token_holders_info" -> after_get_token_holders_info(t, answer)
      [] t.pc = "get_mint_activity" -> after_get_mint_activity(t, answer)
      [] t.pc = "check_liquidity_lock" -> after_check_liquidity_lock(t, answer)
      [] t.pc = "get_burn_events" -> after_get_burn_events(t, answer)
      [] t.pc = "get_24h_transfer_volume" -> after_get_24h_transfer_volume(t, answer)
      [] t.pc = "compare_owner_deployer" -> after_compare_owner_deployer(t, answer)
      [] t.pc = "simulate_honeypot" -> after_simulate_honeypot(t, answer)
      [] t.pc = "get_wallet_metrics" -> after_get_wallet_metrics(t, answer)
      [] t.pc = "get_defi_interactions" -> after_get_defi_interactions(t, answer)

\* An exception that no helper caught is raised in the body of
\* fetch_address_data as the task resumes (lines 87-264).  The inner except
\* clause (line 267) returns an Error response; if building that response
\* raises in turn, the outer clause (line 282) returns one.
ExceptionLines ==
    {"Error processing address: " \o ExceptionText,
     "Critical error: " \o ExceptionText}

raised_in_fetch(t, line) ==
    [t EXCEPT !.pc = "returned",
              !.response = ErrorResponse(t.response, line),
              !.raised = Some([at |-> t.pc, line |-> line])]

\* fetch_address_data has returned t.response; the handler runs to its end.
finish_handler(t, fault, weights, combinations) ==
    LET tail == HandlerTail(t.entry, t.response, fault, weights, combinations)
    IN  [task |-> [t EXCEPT !.pc = "done", !.http = tail.http,
                            !.fault = fault],
         risk_combinations |-> tail.risk_combinations]

\* w3.eth.get_code (line 418) and w3.eth.get_balance (line 1503) raise for
\* a string that is no address, so these two fetches cannot succeed for it.
AnswerPossible(t, answer) ==
    t.pc \in {"is_contract", "get_wallet_metrics"} /\ answer.ok
        => IsAddress(t.address)

(***************************************************************************)
(* The state: one request is being served (InitService), or two at once    *)
(* (InitConcurrent).                                                       *)
(***************************************************************************)
PipelineUnused ==
    /\ risk_weights = RiskWeightsTable
    /\ risk_combinations = RiskCombinationsTable
    /\ pc = "idle"
    /\ address_data = [features |-> WalletFeatures]
    /\ features_text = ""
    /\ risk_factors = <<>>
    /\ risk_score = 0
    /\ applied_combinations = {}
    /\ result = NoResult
    /\ calls = 0

InitService ==
    /\ PipelineUnused
    /\ ServiceLoaded
    /\ HelpersIdle
    /\ task \in [{1} -> Requests]

\* Two requests at once, one to a handler of each module.
ConcurrentRequests ==
    {NewTask(entry, address) :
        entry \in {"main.py POST /analyze", "app.py GET /analyze/{address}"},
        address \in ValidAddresses}

InitConcurrent ==
    /\ PipelineUnused
    /\ ServiceLoaded
    /\ HelpersIdle
    /\ task \in [{1, 2} -> ConcurrentRequests]

\* The frame that holds a call's `response`: all calls sharing one dict.
ResponseFrameShared(p) == 1

\* `response` is a local of the call (line 73): each call has its own.
ResponseFrame(p) == p

\* The task p as it resumes, and the tasks once it is suspended again.
View(p) == [task[p] EXCEPT !.response = task[ResponseFrame(p)].response]

\* Another task is suspended at an await of fetch_address_data.
OtherSuspended(p) ==
    \E q \in DOMAIN task \ {p} : task[q].pc \in FetchAwaits

Store(p, t) ==
    [task EXCEPT ![p] = [t EXCEPT !.interleaved = @ \/ OtherSuspended(p)],
                 ![ResponseFrame(p)].response = t.response]

\* The task runs on to its next await, or, when fetch_address_data has
\* returned, through the rest of the handler.
Continue(p, t) ==
    IF t.pc = "returned"
    THEN \E fault \in HandlerFaults(t.entry, t.response) :
            LET end == finish_handler(t, fault, risk_weights, risk_combinations)
            IN  /\ task' = Store(p, end.task)
                /\ risk_combinations' = end.risk_combinations
                /\ UNCHANGED <<risk_weights, KNOWN_PROTOCOLS, config_cache>>
                /\ UNCHANGED pipeline_call_vars
                /\ UNCHANGED helper_vars
    ELSE /\ task' = Store(p, t)
         /\ UNCHANGED <<risk_weights, risk_combinations, KNOWN_PROTOCOLS,
                        config_cache>>
         /\ UNCHANGED pipeline_call_vars
         /\ UNCHANGED helper_vars

Await(p, name) ==
    /\ task[p].pc = name
    /\ \E answer \in Answers(FetchOf[name]) :
          /\ AnswerPossible(View(p), answer)
          /\ Continue(p, Resumed(View(p), answer))

HandlerEntry(p) ==
    /\ task[p].pc = "received"
    /\ Continue(p, enter_handler(task[p]))

await_is_contract(p) == Await(p, "is_contract")
await_get_contract_age(p) == Await(p, "get_contract_age")
await_get_token_info(p) == Await(p, "get_token_info")
await_get_token_market_data(p) == Await(p, "get_token_market_data")
await_get_token_holders_info(p) == Await(p, "get_token_holders_info")
await_get_mint_activity(p) == Await(p, "get_mint_activity")
await_check_liquidity_lock(p) == Await(p, "check_liquidity_lock")
await_get_burn_events(p) == Await(p, "get_burn_events")
await_get_24h_transfer_volume(p) == Await(p, "get_24h_transfer_volume")
await_compare_owner_deployer(p) == Await(p, "compare_owner_deployer")
await_simulate_honeypot(p) == Await(p, "simulate_honeypot")
await_get_wallet_metrics(p) == Await(p, "get_wallet_metrics")
await_get_defi_interactions(p) == Await(p, "get_defi_interactions")

RaiseInFetch(p) ==
    /\ task[p].pc \in FetchAwaits
    /\ \E line \in ExceptionLines :
          Continue(p, raised_in_fetch(View(p), line))

NextService ==
        \/ \E p \in DOMAIN task : HandlerEntry(p)
        \/ \E p \in DOMAIN task : await_is_contract(p)
        \/ \E p \in DOMAIN task : await_get_contract_age(p)
        \/ \E p \in DOMAIN task : await_get_token_info(p)
        \/ \E p \in DOMAIN task : await_get_token_market_data(p)
        \/ \E p \in DOMAIN task : await_get_token_holders_info(p)
        \/ \E p \in DOMAIN task : await_get_mint_activity(p)
        \/ \E p \in DOMAIN task : await_check_liquidity_lock(p)
        \/ \E p \in DOMAIN task : await_get_burn_events(p)
        \/ \E p \in DOMAIN task : await_get_24h_transfer_volume(p)
        \/ \E p \in DOMAIN task : await_compare_owner_deployer(p)
        \/ \E p \in DOMAIN task : await_simulate_honeypot(p)
        \/ \E p \in DOMAIN task : await_get_wallet_metrics(p)
        \/ \E p \in DOMAIN task : await_get_defi_interactions(p)
        \/ \E p \in DOMAIN task : RaiseInFetch(p)

SpecService == InitService /\ [][NextService]_vars

SpecConcurrent == InitConcurrent /\ [][NextService]_vars

(***************************************************************************)
(* Properties of RiskDetectionPipeline.analyze_address.                    *)
(***************************************************************************)
Returned == pc = "returned"

Features == address_data.features

LastLine(lines) == lines[Len(lines)]

\* Whether the factor named by a key of risk_weights is present in the
\* feature set, stated from the feature values.
FactorPresent(key, features) ==
    IF key = "unverified_contract" THEN ~features.verified_contract
    ELSE IF key = "mint_privileges" THEN features.has_mint_privileges
    ELSE IF key = "high_mint_count" THEN features.mint_event_count > 10
    ELSE IF key = "unlocked_liquidity" THEN ~features.lp_locked
    ELSE IF key = "honeypot_result" THEN features.honeypot_result
    ELSE features.contract_age_days < 7

EntryMultiplier(a, b, features) ==
    IF FactorPresent(a, features) /\ FactorPresent(b, features)
    THEN RiskCombinationsTable[<<a, b>>]
    ELSE 20

\* The base sum times the multipliers of all table pairs whose two factors
\* are present, in units of 1/Scale.
BaseTimesListedMultipliers(features) ==
    SumWeights(CollectRiskFactors(RiskWeightsTable, features), 1)
      * EntryMultiplier("unverified_contract", "mint_privileges", features)
      * EntryMultiplier("unlocked_liquidity", "honeypot_result", features)
      * EntryMultiplier("new_contract", "unverified_contract", features)
      * EntryMultiplier("mint_privileges", "high_mint_count", features)

\* C2: for a contract, every entry of the combination table whose two
\* factors are both detected multiplies the score exactly once, so the
\* score before the clamp is the base sum times the product of the
\* multipliers of all table pairs contained in the detected factor set.
C2_EveryListedPairAppliedOnce ==
    (Returned /\ Features.is_contract) =>
        ScoreAddress(risk_weights, risk_combinations, Features).raw_score
            = BaseTimesListedMultipliers(Features)

\* C3: the returned tier is a function of the returned score with closed
\* boundaries: Safe iff score <= 0.30, Moderate Risk iff 0.30 < score <=
\* 0.70, High Risk iff score > 0.70.
C3_TierFollowsScore ==
    Returned =>
        /\ result.risk_tier \in {"Safe", "Moderate Risk", "High Risk"}
        /\ (result.risk_tier = "Safe")
              <=> (result.risk_score <= (3 * Scale) \div 10)
        /\ (result.risk_tier = "Moderate Risk")
              <=> /\ result.risk_score > (3 * Scale) \div 10
                  /\ result.risk_score <= (7 * Scale) \div 10
        /\ (result.risk_tier = "High Risk")
              <=> (result.risk_score > (7 * Scale) \div 10)

\* C3 witness: a contract scored exactly on the boundary 0.30 and tiered
\* Safe.
C3_BoundaryScore ==
    /\ Returned
    /\ Features.is_contract
    /\ result.risk_score = (3 * Scale) \div 10
    /\ result.risk_tier = "Safe"

\* C4: for a feature set with is_contract false, whatever its other
\* fields, the call returns score 0.0, tier Safe and no detected factor,
\* and the explanation has no factor bullet: it is the overview, the
\* assessment, the no-risk-factors line and the Safe recommendation.
C4_NonContractScoresZero ==
    (Returned /\ ~Features.is_contract) =>
        /\ result.risk_score = 0
        /\ result.risk_tier = "Safe"
        /\ risk_factors = <<>>
        /\ result.explanation =
              <<OverviewLine(features_text),
                "Risk Assessment: This address has been classified as Safe with a risk score of 0.00",
                "No significant risk factors were detected.",
                RecommendSafe>>

\* C4 witness: a non-contract call has returned whose other fields would
\* each raise a factor on a contract.
C4_NonContractWithRiskyFields ==
    /\ Returned
    /\ ~Features.is_contract
    /\ \A key \in DOMAIN RiskWeightsTable : FactorPresent(key, Features)

\* What a newly constructed pipeline returns for the arguments.
FreshResult(data, text) ==
    LET locals == ScoreAddress(RiskWeightsTable, RiskCombinationsTable,
                               data.features)
        risk_tier == _get_risk_tier(locals.risk_score)
    IN  [risk_score |-> locals.risk_score,
         risk_tier |-> risk_tier,
         explanation |->
             _generate_explanation(RiskCombinationsTable, locals.risk_factors,
                                   locals.risk_score, risk_tier, text)]

OneMoreFactor(features) ==
    (IF features.verified_contract
        THEN {[features EXCEPT !.verified_contract = FALSE]} ELSE {}) \cup
    (IF ~features.has_mint_privileges
        THEN {[features EXCEPT !.has_mint_privileges = TRUE]} ELSE {}) \cup
    (IF features.mint_event_count <= 10
        THEN {[features EXCEPT !.mint_event_count = count] :
                 count \in {c \in MintCounts : c > 10}}
        ELSE {}) \cup
    (IF features.lp_locked
        THEN {[features EXCEPT !.lp_locked = FALSE]} ELSE {}) \cup
    (IF ~features.honeypot_result
        THEN {[features EXCEPT !.honeypot_result = TRUE]} ELSE {}) \cup
    (IF features.contract_age_days >= 7
        THEN {[features EXCEPT !.contract_age_days = age] :
                 age \in {a \in AgeDays : a < 7}}
        ELSE {})

\* C6: monotonicity.  For a contract, switching on any single risk factor
\* that was off, from the all-clear baseline or from any other factor set,
\* never decreases the score analyze_address returns.
C6_OneMoreFactorNeverLowersScore ==
    (Returned /\ Features.is_contract) =>
        \A g \in OneMoreFactor(Features) :
            ScoreAddress(risk_weights, risk_combinations, g).risk_score
                >= result.risk_score

\* C6 witness: a contract with new_contract as its only factor has been
\* scored, so that switching on unverified_contract brings in a multiplier.
C6_NewContractOnlyScored ==
    /\ Returned
    /\ Features.is_contract
    /\ risk_factors = << <<"new_contract", 20>> >>
    /\ result.risk_score = 20 * Hundredth

\* C7: every contract that is unverified, a honeypot, with unlocked
\* liquidity and younger than 7 days, whatever its mint fields, gets a
\* score above 0.70, the tier High Risk, and the extreme-caution
\* recommendation as the last explanation line.
C7_HighRiskScenario ==
    (/\ Returned
     /\ Features.is_contract
     /\ ~Features.verified_contract
     /\ Features.honeypot_result
     /\ ~Features.lp_locked
     /\ Features.contract_age_days < 7) =>
        /\ result.risk_score > (7 * Scale) \div 10
        /\ result.risk_tier = "High Risk"
        /\ LastLine(result.explanation) = RecommendHigh

\* C7 witness: the scenario of the spec (unverified, honeypot, unlocked
\* liquidity, 2 days old) with no mint privileges and no mint event has
\* been analysed.
C7_ScenarioAnalysed ==
    /\ Returned
    /\ Features = [is_contract |-> TRUE, verified_contract |-> FALSE,
                   has_mint_privileges |-> FALSE, mint_event_count |-> 0,
                   lp_locked |-> FALSE, honeypot_result |-> TRUE,
                   contract_age_days |-> 2]

\* C8: every contract that is verified, without mint privileges, with at
\* most 10 mint events, locked liquidity, no honeypot and an age of at
\* least 7 days has no detected factor, a score of at most 0.30, the tier
\* Safe, and 'No significant risk factors were detected.' as the
\* second-to-last explanation line.
C8_SafeScenario ==
    (/\ Returned
     /\ Features.is_contract
     /\ Features.verified_contract
     /\ ~Features.has_mint_privileges
     /\ Features.mint_event_count <= 10
     /\ Features.lp_locked
     /\ ~Features.honeypot_result
     /\ Features.contract_age_days >= 7) =>
        /\ risk_factors = <<>>
        /\ result.risk_score <= (3 * Scale) \div 10
        /\ result.risk_tier = "Safe"
        /\ Len(result.explanation) >= 2
        /\ result.explanation[Len(result.explanation) - 1]
              = "No significant risk factors were detected."

\* C8 witness: such a contract on both thresholds (10 mint events, 7 days
\* old) has been analysed.
C8_ThresholdContractAnalysed ==
    /\ Returned
    /\ Features = [is_contract |-> TRUE, verified_contract |-> TRUE,
                   has_mint_privileges |-> FALSE, mint_event_count |-> 10,
                   lp_locked |-> TRUE, honeypot_result |-> FALSE,
                   contract_age_days |-> 7]

\* The profile families of tests/test_utils.py generate_random_addresses.
Profile(features, verified, mint, lo_count, hi_count, locked, honeypot,
        lo_age, hi_age) ==
    /\ features.is_contract
    /\ features.verified_contract = verified
    /\ features.has_mint_privileges = mint
    /\ features.mint_event_count \in lo_count..hi_count
    /\ features.lp_locked = locked
    /\ features.honeypot_result = honeypot
    /\ features.contract_age_days \in lo_age..hi_age

ModerateFamily(features) ==
    \/ Profile(features, TRUE, TRUE, 5, 10, FALSE, FALSE, 7, 30)
    \/ Profile(features, FALSE, FALSE, 0, 5, TRUE, FALSE, 30, 60)

SafeFamily(features) ==
    Profile(features, TRUE, FALSE, 0, 5, TRUE, FALSE, 30, 365)

HighFamily(features) ==
    \/ Profile(features, FALSE, TRUE, 10, 20, FALSE, TRUE, 1, 7)
    \/ Profile(features, FALSE, TRUE, 5, 15, FALSE, TRUE, 1, 14)

\* C9: every feature set of the two moderate families is tiered Moderate
\* Risk with 0.30 < score < 0.70 and the proceed-with-caution
\* recommendation as last line; every one of the safe family is tiered
\* Safe and every one of the two high families is tiered High Risk.
C9_ProfileFamiliesTiered ==
    Returned =>
        /\ ModerateFamily(Features) =>
              /\ result.risk_tier = "Moderate Risk"
              /\ result.risk_score > (3 * Scale) \div 10
              /\ result.risk_score < (7 * Scale) \div 10
              /\ LastLine(result.explanation) = RecommendModerate
        /\ SafeFamily(Features) => result.risk_tier = "Safe"
        /\ HighFamily(Features) => result.risk_tier = "High Risk"

\* C9 witness: a member of the first moderate family on its upper mint
\* count and lower age (10 mint events, 7 days) has been analysed.
C9_ModerateFamilyAnalysed ==
    /\ Returned
    /\ Features = [is_contract |-> TRUE, verified_contract |-> TRUE,
                   has_mint_privileges |-> TRUE, mint_event_count |-> 10,
                   lp_locked |-> FALSE, honeypot_result |-> FALSE,
                   contract_age_days |-> 7]

\* The number of lines of the explanation that belong to a set of lines.
CountLines(lines, wanted) ==
    Cardinality({i \in 1..Len(lines) : lines[i] \in wanted})

\* The range of a dict.
Values(dict) == {dict[key] : key \in DOMAIN dict}

\* Every line that is a factor bullet, and every line that is a
\* combination bullet, for the names, weights and multipliers of the tables.
AllFactorBullets ==
    {FactorBullet(factor, weight) :
        factor \in DOMAIN risk_explanations, weight \in Values(RiskWeightsTable)}

AllCombinationBullets ==
    {CombinationBullet(factor1, factor2, multiplier) :
        factor1 \in DOMAIN risk_explanations,
        factor2 \in DOMAIN risk_explanations,
        multiplier \in Values(RiskCombinationsTable)}

AllRecommendations == {RecommendHigh, RecommendModerate, RecommendSafe}

\* C10: the explanation starts with the Analysis Overview line followed by
\* the Risk Assessment line naming the returned tier and the score with two
\* decimals, has exactly one bullet per detected factor (its rationale
\* text and weight) and exactly one bullet per combination multiplier that
\* was applied to the score (stating the uplift (multiplier - 1) x 100
\* percent), and ends with exactly one Recommendation line, the one of the
\* returned tier.
C10_ExplanationStructure ==
    Returned =>
        LET lines == result.explanation IN
        /\ Len(lines) >= 4
        /\ lines[1] = "Analysis Overview: " \o features_text
        /\ lines[2] = "Risk Assessment: This address has been classified as "
                      \o result.risk_tier \o " with a risk score of "
                      \o Format2f(result.risk_score)
        /\ 2 * (RoundHundredths(result.risk_score) * Hundredth - result.risk_score)
              \in (0 - Hundredth)..Hundredth
        /\ \A k \in 1..Len(risk_factors) :
              /\ risk_factors[k][1] \in DOMAIN risk_explanations
              /\ CountLines(lines,
                     {"- " \o risk_explanations[risk_factors[k][1]]
                       \o " (Impact: " \o Format2f(risk_factors[k][2] * Hundredth)
                       \o ")"}) = 1
        /\ CountLines(lines, AllFactorBullets) = Len(risk_factors)
        /\ \A combo \in applied_combinations :
              CountLines(lines,
                  {"- Combined impact of " \o pair[1] \o " and " \o pair[2]
                    \o " increases overall risk by "
                    \o ToString(5 * risk_combinations[combo] - 100) \o "%" :
                      pair \in {combo, <<combo[2], combo[1]>>}}) = 1
        /\ CountLines(lines, AllCombinationBullets)
              = Cardinality(applied_combinations)
        /\ LastLine(lines) =
              (IF result.risk_tier = "High Risk" THEN RecommendHigh
               ELSE IF result.risk_tier = "Moderate Risk" THEN RecommendModerate
               ELSE RecommendSafe)
        /\ CountLines(lines, AllRecommendations) = 1

\* C10 witness: a call has returned that detected at least three factors
\* and applied a combination multiplier.
C10_FactorsAndCombinationExplained ==
    /\ Returned
    /\ Len(risk_factors) >= 3
    /\ applied_combinations # {}

(***************************************************************************)
(* Properties of the service: fetch_address_data and the handlers.         *)
(***************************************************************************)
\* The task's handler has answered.
Answered(p) == task[p].pc = "done"

\* fetch_address_data returned a scored contract (line 264 reached on the
\* contract branch).
ScoredContract(p) ==
    /\ Answered(p)
    /\ task[p].response # None
    /\ task[p].response.type \in {"Contract", "Token"}

\* The sum, in hundredths, of the weights of the factors present.
SumOfFactorWeights(features, is_token) ==
    (IF ~features.verified_contract THEN 35 ELSE 0) +
    (IF ~features.lp_locked /\ is_token THEN 30 ELSE 0) +
    (IF features.contract_age_days < 30 THEN 20 ELSE 0) +
    (IF features.has_mint_privileges THEN 15 ELSE 0) +
    (IF features.honeypot_result THEN 25 ELSE 0)

\* What the pair (unverified, new) adds beyond the two weights.
PairSurcharge(features) ==
    IF ~features.verified_contract /\ features.contract_age_days < 30
    THEN 15 ELSE 0

AtMost99(hundredths) == IF hundredths < 99 THEN hundredths ELSE 99

\* C11 (as amended): the score fetch_address_data gives a contract is,
\* to the hundredth, min(0.99, the sum of the weights of the factors
\* present, plus 0.15 when the contract is both unverified and younger than
\* 30 days), and lies in [0, 0.99].
C11_ScoreIsWeightsPlusPairSurcharge ==
    \A p \in DOMAIN task :
        ScoredContract(p) =>
            LET response == task[p].response IN
            /\ RoundHundredths(response.risk_score) =
                   AtMost99(SumOfFactorWeights(response.features,
                                               response.is_token)
                            + PairSurcharge(response.features))
            /\ response.risk_score >= 0
            /\ response.risk_score <= 99 * Hundredth

\* A contract that is unverified and 29 days old and has no other factor
\* is scored 0.70, not 0.55.
C11_UnverifiedNewScored070 ==
    \E p \in DOMAIN task :
        /\ ScoredContract(p)
        /\ ~task[p].response.is_token
        /\ task[p].response.features.contract_age_days = 29
        /\ ~task[p].response.features.honeypot_result
        /\ RoundHundredths(task[p].response.risk_score) = 70

\* C11 as stated: the score is min(0.99, the sum of the weights of the
\* factors present), no pair adding anything.
C11_ScoreIsSumOfWeights ==
    \A p \in DOMAIN task :
        ScoredContract(p) =>
            RoundHundredths(task[p].response.risk_score) =
                AtMost99(SumOfFactorWeights(task[p].response.features,
                                            task[p].response.is_token))

\* The fetch was made and the upstream answered it with data.
Succeeded(answers, fetch) == fetch \in DOMAIN answers /\ answers[fetch].ok

\* The fetch was made and failed.
Failed(answers, fetch) == fetch \in DOMAIN answers /\ ~answers[fetch].ok

\* fetch_address_data ran to its return with no exception other than the
\* failed fetches, for an address the node reported as a contract.
AnalysedContract(p) ==
    /\ Answered(p)
    /\ task[p].response # None
    /\ task[p].raised = None
    /\ Succeeded(task[p].answers, "is_contract")
    /\ task[p].answers["is_contract"].value

IsErrorShaped(response) ==
    /\ response.type = "Error"
    /\ response.risk_score = 0
    /\ response.risk_tier = "Unknown"
    /\ ~response.is_contract
    /\ ~response.is_token
    /\ response.summary = EmptyDict
    /\ response.features = EmptyDict

\* C13: when an exception is raised inside fetch_address_data, its caller
\* receives an Error response (type 'Error', risk_score 0.0, risk_tier
\* 'Unknown', is_contract and is_token false, empty summary and features)
\* whatever had been filled in before, and the main.py handler sends that
\* response as it is, with status 500, not the pipeline's result; when the
\* exception is raised in the main.py handler after the fetch, the handler
\* sends an Error response too.  Every request is answered with a response.
C13_ExceptionsBecomeErrorResponses ==
    \A p \in DOMAIN task :
        Answered(p) =>
            /\ task[p].http # None
            /\ task[p].raised # None =>
                   /\ IsErrorShaped(task[p].response)
                   /\ task[p].http.content = task[p].response
                   /\ task[p].entry \in MainEntries =>
                          task[p].http.status_code = 500
            /\ task[p].fault =>
                   /\ IsErrorShaped(task[p].http.content)
                   /\ task[p].http.status_code = 500

\* An exception raised after the token fields of the response were filled
\* in, answered by a main.py handler.
C13_RaisedAfterTokenFieldsFilled ==
    \E p \in DOMAIN task :
        /\ Answered(p)
        /\ task[p].entry \in MainEntries
        /\ task[p].raised # None
        /\ task[p].raised[1].at = "check_liquidity_lock"
        /\ task[p].http.content.explanation =
               <<"Error processing address: unexpected">>

\* C14 as stated: for a string that is no address, every entry point
\* answers with an Error response and no fetch is made for it.
C14_InvalidAddressRejectedBeforeFetch ==
    \A p \in DOMAIN task :
        ~IsAddress(task[p].address) =>
            /\ task[p].answers = EmptyDict
            /\ Answered(p) => task[p].http.content.type = "Error"

\* The answer of a fetch that succeeded and found nothing: no code at the
\* address, an empty result list, no transfers to the zero address, no
\* transfer to a locker.
EmptyAnswer ==
    [is_contract |-> Ok(FALSE),
     get_contract_creator |-> Ok(<<>>),
     get_burn_events |-> Ok(0),
     check_liquidity_lock |-> Ok(FALSE)]

HelperResult(fetch, answer) ==
    CASE fetch = "is_contract" -> <<is_contract(answer)>>
      [] fetch = "get_contract_creator" -> <<get_contract_creator(answer)>>
      [] fetch = "get_burn_events" -> <<get_burn_events(answer)>>
      [] fetch = "check_liquidity_lock" -> <<check_liquidity_lock(answer)>>

\* C15 as stated: the value an access function returns after a transport
\* failure is never the value it returns after a successful fetch that
\* found no data.
C15_FailureDistinctFromEmptyResult ==
    /\ \A p \in DOMAIN task :
           \A fetch \in DOMAIN task[p].answers \cap DOMAIN EmptyAnswer :
               Failed(task[p].answers, fetch) =>
                   HelperResult(fetch, task[p].answers[fetch]) #
                       HelperResult(fetch, EmptyAnswer[fetch])
    /\ \A why \in FailureKinds :
           /\ fetch_transactions(Failure(why)) # fetch_transactions(Ok(<<>>))
           /\ fetch_contract_data(Failure(why)) # fetch_contract_data(Ok(<<>>))

\* The task run alone from its reception to its answer, the upstream
\* answering and the exceptions falling as they did for `seen`, the module
\* state as loaded.
RECURSIVE RunAlone(_, _)
RunAlone(t, seen) ==
    IF t.pc = "done" THEN t
    ELSE IF t.pc = "returned"
    THEN finish_handler(t, seen.fault, RiskWeightsTable,
                        RiskCombinationsTable).task
    ELSE IF t.pc = "received" THEN RunAlone(enter_handler(t), seen)
    ELSE IF seen.raised # None /\ seen.raised[1].at = t.pc
    THEN RunAlone(raised_in_fetch(t, seen.raised[1].line), seen)
    ELSE RunAlone(Resumed(t, seen.answers[FetchOf[t.pc]]), seen)

ModuleStateAsLoaded ==
    /\ KNOWN_PROTOCOLS = KnownProtocolsTable
    /\ config_cache = EmptyDict
    /\ risk_weights = RiskWeightsTable
    /\ risk_combinations = RiskCombinationsTable

WindowBlocks == 7200
ToleranceSeconds == 300
DaySeconds == 86400

MaxBlocks == 4

TimeValues == {500, 1000, 1350, 1700, 87650}

TableChains ==
    {[kind |-> "table", times |-> times] :
        times \in UNION {[1..n -> TimeValues] : n \in 1..MaxBlocks}}

LinearChains ==
    {[kind |-> "linear", latest |-> latest, genesis |-> 1000,
      interval |-> interval] :
        latest \in {7199, 7200, 7201, 20000}, interval \in {11, 12, 13}}

Chains == TableChains \cup LinearChains

\* w3.eth.block_number
Latest(chain) ==
    IF chain.kind = "table" THEN Len(chain.times) - 1 ELSE chain.latest

\* w3.eth.get_block(n)['timestamp']
BlockTime(chain, n) ==
    IF chain.kind = "table"
    THEN chain.times[n + 1]
    ELSE chain.genesis + chain.interval * n

Abs(n) == IF n < 0 THEN 0 - n ELSE n

\* line 834: abs(block_time - target_time) < 300
WithinTolerance(block_time, target_time) ==
    Abs(block_time - target_time) < ToleranceSeconds

\* line 836 taken whatever the timestamps are
SearchesUpwardAlways(block_time, target_time) == TRUE

\* line 836 with the comparison turned round
SearchesUpwardInverted(block_time, target_time) == block_time > target_time

\* line 836: block_time < target_time, the search goes on above mid
SearchesUpward(block_time, target_time) == block_time < target_time

\* line 837 without the step past mid
LeftAboveMidKeepingMid(mid) == mid

\* line 837: left = mid + 1
LeftAboveMid(mid) == mid + 1

\* line 826: left = max(0, current_block - 7200)
WindowStart(current_block) ==
    IF current_block - WindowBlocks > 0 THEN current_block - WindowBlocks ELSE 0

NewSearch(chain) ==
    [chain |-> chain,
     pc |-> "called",
     current_block |-> None, target_time |-> None,
     left |-> None, right |-> None,     \* the locals, unbound
     probed |-> <<>>,                   \* the midpoints fetched, in order
     failed |-> FALSE,                  \* a fetch raised
     returned |-> None]

InitBlockSearch ==
    /\ PipelineUnused
    /\ ServiceLoaded
    /\ task = NoTasks
    /\ scan = NoScan
    /\ call = NoCall
    /\ search \in {NewSearch(chain) : chain \in Chains}

\* lines 816-827: the latest block, its timestamp, the target, the bounds.
SearchBegin ==
    /\ search # NoSearch
    /\ search.pc = "called"
    /\ LET current_block == Latest(search.chain)
           current_time == BlockTime(search.chain, current_block)
       IN  search' = [search EXCEPT
                         !.pc = "loop",
                         !.current_block = current_block,
                         !.target_time = current_time - DaySeconds,
                         !.left = WindowStart(current_block),
                         !.right = current_block]
    /\ UNCHANGED <<risk_weights, risk_combinations, task, KNOWN_PROTOCOLS,
                   config_cache, scan, call>>
    /\ UNCHANGED pipeline_call_vars

\* lines 829-839: one iteration of the loop.
SearchProbe ==
    /\ search # NoSearch
    /\ search.pc = "loop"
    /\ search.left <= search.right
    /\ LET mid == (search.left + search.right) \div 2
           block_time == BlockTime(search.chain, mid)
       IN  search' =
               IF WithinTolerance(block_time, search.target_time)
               THEN [search EXCEPT !.pc = "returned",
                                   !.probed = Append(@, mid),
                                   !.returned = Some(mid)]
               ELSE IF SearchesUpward(block_time, search.target_time)
               THEN [search EXCEPT !.left = LeftAboveMid(mid),
                                   !.probed = Append(@, mid)]
               ELSE [search EXCEPT !.right = mid - 1,
                                   !.probed = Append(@, mid)]
    /\ UNCHANGED <<risk_weights, risk_combinations, task, KNOWN_PROTOCOLS,
                   config_cache, scan, call>>
    /\ UNCHANGED pipeline_call_vars

\* lines 829 and 841: the bounds have crossed; return left.
SearchExhausted ==
    /\ search # NoSearch
    /\ search.pc = "loop"
    /\ search.left > search.right
    /\ search' = [search EXCEPT !.pc = "returned",
                                !.returned = Some(search.left)]
    /\ UNCHANGED <<risk_weights, risk_combinations, task, KNOWN_PROTOCOLS,
                   config_cache, scan, call>>
    /\ UNCHANGED pipeline_call_vars

\* lines 842-843: a fetch (the block number, or a block) raises; return 0.
SearchFetchFails ==
    /\ search # NoSearch
    /\ \/ search.pc = "called"
       \/ search.pc = "loop" /\ search.left <= search.right
    /\ search' = [search EXCEPT !.pc = "returned", !.failed = TRUE,
                                !.returned = Some(0)]
    /\ UNCHANGED <<risk_weights, risk_combinations, task, KNOWN_PROTOCOLS,
                   config_cache, scan, call>>
    /\ UNCHANGED pipeline_call_vars

NextBlockSearch ==
    \/ SearchBegin
    \/ SearchProbe
    \/ SearchExhausted
    \/ SearchFetchFails

SpecBlockSearch == InitBlockSearch /\ [][NextBlockSearch]_vars

\* The event loop resumes the coroutine whenever the awaited call has
\* answered or failed, so a step that is possible is eventually taken.
SpecBlockSearchFair == SpecBlockSearch /\ WF_vars(NextBlockSearch)

(***************************************************************************)
(* Properties of get_block_number_24h_ago.                                 *)
(***************************************************************************)
SearchReturned == search # NoSearch /\ search.pc = "returned"

\* The blocks of the search window.
Window(chain) == WindowStart(Latest(chain))..Latest(chain)

\* The target: 24 hours before the latest block's timestamp.
Target(chain) == BlockTime(chain, Latest(chain)) - DaySeconds

\* Block timestamps never decrease.
Monotone(chain) ==
    IF chain.kind = "table"
    THEN \A i \in 1..(Len(chain.times) - 1) :
            chain.times[i] <= chain.times[i + 1]
    ELSE chain.interval >= 0

Hit(chain, n) == WithinTolerance(BlockTime(chain, n), Target(chain))

\* C16: on a chain whose timestamps never decrease and whose search window
\* [max(0, latest - 7200), latest] holds a block less than 300 seconds from
\* the target, a search in which no fetch fails returns a block less than
\* 300 seconds from the target: the first midpoint it probed that is.
C16_SearchFindsBlockWithinTolerance ==
    SearchReturned /\ ~search.failed /\ Monotone(search.chain)
        /\ (\E n \in Window(search.chain) : Hit(search.chain, n))
    => /\ search.returned[1] \in Window(search.chain)
       /\ Hit(search.chain, search.returned[1])
       /\ search.probed # <<>>
       /\ search.returned[1] = search.probed[Len(search.probed)]
       /\ \A i \in 1..(Len(search.probed) - 1) :
              ~Hit(search.chain, search.probed[i])

\* A search over the full window of 7200 blocks that probed several
\* midpoints outside the tolerance before the one it returned.
C16_FoundAfterSeveralProbes ==
    /\ SearchReturned /\ ~search.failed
    /\ search.chain.kind = "linear"
    /\ Len(search.probed) >= 3
    /\ Hit(search.chain, search.returned[1])
    /\ search.returned[1] # Latest(search.chain) - WindowBlocks

(***************************************************************************)
(* Part 4: blockchain_utils.get_token_market_data (lines 886-1091), the    *)
(* scan of the DEX factories for the token's WETH pools.                   *)
(*                                                                         *)
(* A candidate is one factory lookup: the pair of a V2-style factory, or   *)
(* the pool of one fee tier of the V3 factory.  What the node answers for  *)
(* a candidate is the environment's choice: no pool (the zero address), an *)
(* error in one of the calls, or the pool's data.  All calls for a         *)
(* candidate precede the first assignment made for it (lines 972-987 and   *)
(* 1013-1038), so one action is the whole of one candidate.                *)
(*                                                                         *)
(* Amounts are whole numbers: reserves and volumes in ETH, prices in units *)
(* of 1/420 ETH, so that reserve quotients are exact.                      *)
(***************************************************************************)
\* lines 919-948 and 969-970: the candidates in the order they are probed.
Candidates ==
    <<[dex |-> "Uniswap V2", version |-> "v2"],
      [dex |-> "SushiSwap", version |-> "v2"],
      [dex |-> "Uniswap V3 (0.01%)", version |-> "v3"],
      [dex |-> "Uniswap V3 (0.05%)", version |-> "v3"],
      [dex |-> "Uniswap V3 (0.3%)", version |-> "v3"],
      [dex |-> "Uniswap V3 (1.0%)", version |-> "v3"],
      [dex |-> "PancakeSwap", version |-> "v2"]>>

MaxPools == 2

\* The ETH reserves a pool can hold.
EthReserves == {0, 1, 2}

\* The data of the pool of candidate i.  An empty V2 pair has no token
\* reserve either; a V3 pool has a price whatever its liquidity.
PoolAnswer(i, eth_reserve) ==
    [kind |-> "pool",
     pair_address |-> "0xpool" \o ToString(i),
     eth_reserve |-> eth_reserve,
     token_reserve |-> IF eth_reserve = 0 THEN 0 ELSE i,
     price |-> 420 * (10 + i),
     pool_volume |-> 1]

NoPoolAnswer == [kind |-> "absent"]
CallErrorAnswer == [kind |-> "error"]

\* lines 1029-1034
V2Price(answer) ==
    IF answer.token_reserve > 0
    THEN (answer.eth_reserve * 420) \div answer.token_reserve
    ELSE 0

NewScan ==
    [pc |-> "called",
     eth_price |-> 0,
     index |-> 1,                   \* the candidate probed next
     total_liquidity_eth |-> 0,
     total_volume_24h |-> 0,
     main_pool_address |-> None,
     max_liquidity |-> 0,
     price_eth |-> 0,               \* market_data['price_eth']
     price_usd |-> 0,               \* market_data['price_usd']
     dex_data |-> <<>>,             \* market_data['dex_data']
     outcomes |-> <<>>,             \* what the node answered, per candidate probed
     returned |-> None]

InitMarketScan ==
    /\ PipelineUnused
    /\ ServiceLoaded
    /\ task = NoTasks
    /\ search = NoSearch
    /\ call = NoCall
    /\ scan = NewScan

\* The scan stopping at a failed candidate.
after_failed_candidate_aborting(s) ==
    [s EXCEPT !.index = Len(Candidates) + 1]

\* lines 1009-1010 and 1060-1061: except Exception: pass; the loop goes on
\* with the next candidate.  A pool address of zero (lines 973, 1015) does
\* the same.
after_failed_candidate(s) == [s EXCEPT !.index = @ + 1]

\* lines 974-1008 (V3) and 1016-1059 (V2): the pool was read.
after_pool_read(s, answer) ==
    LET candidate == Candidates[s.index]
        eth_reserve == answer.eth_reserve
        price_eth == IF candidate.version = "v3"
                     THEN answer.price ELSE V2Price(answer)
        price_usd == price_eth * s.eth_price
        is_main == eth_reserve > s.max_liquidity
    IN  [s EXCEPT
            !.index = @ + 1,
            !.total_volume_24h = @ + answer.pool_volume,
            !.total_liquidity_eth = @ + eth_reserve,
            !.max_liquidity = IF is_main THEN eth_reserve ELSE @,
            !.main_pool_address =
                IF is_main THEN Some(answer.pair_address) ELSE @,
            !.price_eth = IF is_main THEN price_eth ELSE @,
            !.price_usd = IF is_main THEN price_usd ELSE @,
            !.dex_data = Append(@,
                [dex |-> candidate.dex,
                 pair_address |-> answer.pair_address,
                 liquidity_eth |-> eth_reserve,
                 token_reserve |-> answer.token_reserve,
                 price_eth |-> price_eth,
                 price_usd |-> price_usd,
                 volume_24h |-> answer.pool_volume])]

\* lines 963-1061: one candidate of the loop.
probe_candidate(s, answer) ==
    LET t == [s EXCEPT !.outcomes = Append(@, answer)] IN
    IF answer.kind = "pool"
    THEN after_pool_read(t, answer)
    ELSE after_failed_candidate(t)

ScanUnchanged ==
    /\ UNCHANGED <<risk_weights, risk_combinations, task, KNOWN_PROTOCOLS,
                   config_cache, search, call>>
    /\ UNCHANGED pipeline_call_vars

\* lines 888-960: the ETH price (0.0 when its fetch fails), the token
\* contract and its decimals.
ScanBegin ==
    /\ scan # NoScan
    /\ scan.pc = "called"
    /\ \E eth_price \in {0, 2} :
          scan' = [scan EXCEPT !.pc = "scanning", !.eth_price = eth_price]
    /\ ScanUnchanged

\* lines 956 and 1090-1091: building the token contract raises (the address
\* is not in checksum form); the outer except clause returns {}.
ScanAborts ==
    /\ scan # NoScan
    /\ scan.pc = "called"
    /\ scan' = [scan EXCEPT !.pc = "returned", !.returned = Some(EmptyDict)]
    /\ ScanUnchanged

ScanProbe ==
    /\ scan # NoScan
    /\ scan.pc = "scanning"
    /\ scan.index <= Len(Candidates)
    /\ \E answer \in {NoPoolAnswer, CallErrorAnswer} \cup
                     {PoolAnswer(scan.index, eth) : eth \in EthReserves} :
          /\ answer.kind = "pool" => Len(scan.dex_data) < MaxPools
          /\ scan' = probe_candidate(scan, answer)
    /\ ScanUnchanged

\* lines 1063-1088: the CEX volume (its fetch may fail; the division by an
\* ETH price of 0.0 raises and is passed over), the totals, the market cap
\* (the supply fetch may fail), the return.
ScanFinish ==
    /\ scan # NoScan
    /\ scan.pc = "scanning"
    /\ scan.index > Len(Candidates)
    /\ \E cex_volume \in {None, Some(4)}, total_supply \in {None, Some(1000)} :
          LET volume == IF cex_volume # None /\ scan.eth_price # 0
                        THEN scan.total_volume_24h +
                             cex_volume[1] \div scan.eth_price
                        ELSE scan.total_volume_24h
          IN  scan' = [scan EXCEPT
                  !.pc = "returned",
                  !.returned = Some(
                      [market_cap |->
                           IF scan.price_usd > 0 /\ total_supply # None
                           THEN total_supply[1] * scan.price_usd ELSE 0,
                       price_usd |-> scan.price_usd,
                       price_eth |-> scan.price_eth,
                       volume_24h |-> volume,
                       total_liquidity_eth |-> scan.total_liquidity_eth,
                       main_pool_address |-> scan.main_pool_address,
                       dex_data |-> scan.dex_data])]
    /\ ScanUnchanged

NextMarketScan ==
    \/ ScanBegin
    \/ ScanAborts
    \/ ScanProbe
    \/ ScanFinish

SpecMarketScan == InitMarketScan /\ [][NextMarketScan]_vars

(***************************************************************************)
(* Properties of get_token_market_data.                                    *)
(***************************************************************************)
\* The scan returned its market data.
ScanReturned ==
    scan # NoScan /\ scan.pc = "returned" /\ scan.returned # Some(EmptyDict)

RECURSIVE SumOf(_, _)
SumOf(pools, field) ==
    IF pools = <<>> THEN 0
    ELSE pools[1][field] + SumOf(Tail(pools), field)

\* The pools among the answers, in the order they were read.
RECURSIVE PoolsRead(_)
PoolsRead(outcomes) ==
    IF outcomes = <<>> THEN <<>>
    ELSE (IF outcomes[1].kind = "pool" THEN <<outcomes[1]>> ELSE <<>>)
         \o PoolsRead(Tail(outcomes))

\* C18 as stated: when at least one pool was discovered, main_pool_address
\* is the earliest-discovered pool of greatest liquidity_eth, and price_eth
\* and price_usd are that pool's.
C18_MainPoolHasGreatestLiquidity ==
    ScanReturned /\ scan.returned[1].dex_data # <<>> =>
        LET data == scan.returned[1]
            pools == data.dex_data
        IN  \E i \in 1..Len(pools) :
               /\ data.main_pool_address = Some(pools[i].pair_address)
               /\ \A j \in 1..Len(pools) :
                      pools[j].liquidity_eth <= pools[i].liquidity_eth
               /\ \A j \in 1..(i - 1) :
                      pools[j].liquidity_eth < pools[i].liquidity_eth
               /\ data.price_eth = pools[i].price_eth
               /\ data.price_usd = pools[i].price_usd

\* C19: a candidate that has no pool or whose calls fail does not end the
\* scan and changes nothing that was recorded: at every point of the scan
\* dex_data holds exactly the pools read so far, each once and in order,
\* with their liquidity, and the running totals are the sums over them;
\* and the scan returns only after all seven candidates were probed, with
\* total_liquidity_eth the sum of liquidity_eth over the returned dex_data.
C19_FailedCandidatesChangeNothing ==
    scan # NoScan /\ scan.pc # "called" =>
        LET read == PoolsRead(scan.outcomes) IN
        /\ Len(scan.dex_data) = Len(read)
        /\ \A i \in 1..Len(read) :
               /\ scan.dex_data[i].pair_address = read[i].pair_address
               /\ scan.dex_data[i].liquidity_eth = read[i].eth_reserve
        /\ \A i, j \in 1..Len(scan.dex_data) :
               i # j =>
                   scan.dex_data[i].pair_address # scan.dex_data[j].pair_address
        /\ scan.total_liquidity_eth = SumOf(scan.dex_data, "liquidity_eth")
        /\ scan.total_volume_24h = SumOf(scan.dex_data, "volume_24h")
        /\ scan.index = Len(scan.outcomes) + 1
        /\ ScanReturned =>
               /\ Len(scan.outcomes) = Len(Candidates)
               /\ scan.returned[1].dex_data = scan.dex_data
               /\ scan.returned[1].total_liquidity_eth =
                      SumOf(scan.returned[1].dex_data, "liquidity_eth")

\* A scan in which the first and a later candidate failed, a fee tier was
\* absent, and two pools were read, the second of them not the main pool.
C19_ScanWithFailuresBetweenPools ==
    /\ ScanReturned
    /\ scan.outcomes[1].kind = "error"
    /\ scan.outcomes[2].kind = "pool"
    /\ scan.outcomes[3].kind = "error"
    /\ scan.outcomes[4].kind = "absent"
    /\ scan.outcomes[5].kind = "pool"
    /\ scan.outcomes[7].kind = "error"
    /\ Len(scan.returned[1].dex_data) = 2
    /\ scan.returned[1].main_pool_address = Some(scan.dex_data[1].pair_address)
    /\ scan.returned[1].total_liquidity_eth = 3

(***************************************************************************)
(* The factors of a contract and its base score.                           *)
(***************************************************************************)
\* The (name, weight in hundredths) pairs a feature set calls for, as a set.
DetectedFactors(features) ==
    (IF ~features.verified_contract
        THEN {<<"unverified_contract", 35>>} ELSE {}) \cup
    (IF features.has_mint_privileges
        THEN {<<"mint_privileges", 25>>} ELSE {}) \cup
    (IF features.mint_event_count > 10
        THEN {<<"high_mint_count", 20>>} ELSE {}) \cup
    (IF ~features.lp_locked
        THEN {<<"unlocked_liquidity", 30>>} ELSE {}) \cup
    (IF features.honeypot_result
        THEN {<<"honeypot_detected", 45>>} ELSE {}) \cup
    (IF features.contract_age_days < 7
        THEN {<<"new_contract", 20>>} ELSE {})

\* The sum of the weights of a set of (name, weight) pairs, in hundredths.
RECURSIVE SumOfPairs(_)
SumOfPairs(pairs) ==
    IF pairs = {} THEN 0
    ELSE LET pair == CHOOSE q \in pairs : TRUE
         IN  pair[2] + SumOfPairs(pairs \ {pair})

\* C20: once a contract has been analysed, the factors collected are exactly
\* those its features call for (unverified_contract iff not verified,
\* mint_privileges iff has_mint_privileges, high_mint_count iff more than 10
\* mint events, unlocked_liquidity iff not lp_locked, the honeypot factor iff
\* honeypot_result, new_contract iff younger than 7 days), each once and
\* with its fixed weight, and the base score before the multipliers is the
\* sum of those weights.
C20_FactorsAndBaseScoreFollowFeatures ==
    (Returned /\ Features.is_contract) =>
        /\ {risk_factors[i] : i \in DOMAIN risk_factors}
              = DetectedFactors(Features)
        /\ Len(risk_factors) = Cardinality(DetectedFactors(Features))
        /\ FirstPass(risk_factors)
              = SumOfPairs(DetectedFactors(Features)) * Hundredth

\* C20 witness: a contract on both thresholds (10 mint events, 7 days old)
\* with the four other factors present has been analysed; its base score is
\* 0.35 + 0.25 + 0.30 + 0.45.
C20_ThresholdContractWithFourFactors ==
    /\ Returned
    /\ Features.is_contract
    /\ ~Features.verified_contract
    /\ Features.has_mint_privileges
    /\ Features.mint_event_count = 10
    /\ ~Features.lp_locked
    /\ Features.honeypot_result
    /\ Features.contract_age_days = 7
    /\ Len(risk_factors) = 4
    /\ FirstPass(risk_factors) = 135 * Hundredth

(***************************************************************************)
(* One more factor and the clamp of line 86.                               *)
(***************************************************************************)
ScoreOf(features) ==
    ScoreAddress(risk_weights, risk_combinations, features).risk_score

\* C21 (as stated): for a contract in which a risk factor is off, switching
\* that factor on yields a strictly greater score from analyze_address.
C21_OneMoreFactorStrictlyRaisesScore ==
    (Returned /\ Features.is_contract) =>
        \A g \in OneMoreFactor(Features) : ScoreOf(g) > result.risk_score

\* C21 (amended): for a contract in which a risk factor is off, switching
\* that factor on yields a strictly greater score from analyze_address
\* whenever the score with the factor off is below 1.0; a score already
\* clamped to 1.0 stays 1.0.
C21_OneMoreFactorRaisesScoreBelowClamp ==
    (Returned /\ Features.is_contract) =>
        \A g \in OneMoreFactor(Features) :
            IF result.risk_score < Scale
            THEN ScoreOf(g) > result.risk_score
            ELSE ScoreOf(g) = Scale

\* C21 witness: the last contract of the tests' chain (unverified, mint
\* privileges, unlocked liquidity, honeypot; 1.35 clamped to 1.0) has been
\* scored while new_contract and high_mint_count are still off.
C21_ClampedContractWithFactorsOff ==
    /\ Returned
    /\ Features.is_contract
    /\ ~Features.verified_contract
    /\ Features.has_mint_privileges
    /\ ~Features.lp_locked
    /\ Features.honeypot_result
    /\ Features.mint_event_count <= 10
    /\ Features.contract_age_days >= 7
    /\ result.risk_score = Scale
    /\ OneMoreFactor(Features) # {}

(***************************************************************************)
(* Termination of the binary search.                                       *)
(***************************************************************************)
\* The number of blocks between the bounds, 0 once they have crossed.
IntervalSize(s) == IF s.left <= s.right THEN s.right - s.left + 1 ELSE 0

\* A timestamp occurs on two blocks of the chain.
RepeatedTimes(chain) ==
    /\ chain.kind = "table"
    /\ \E i, j \in DOMAIN chain.times : i # j /\ chain.times[i] = chain.times[j]

\* One iteration of the loop either returns or strictly shrinks the
\* interval [left, right], and the bounds stay integers around the window.
IterationReturnsOrShrinks ==
    (search # NoSearch /\ search.pc = "loop") =>
        \/ search'.pc = "returned"
        \/ /\ search'.pc = "loop"
           /\ IntervalSize(search') < IntervalSize(search)
           /\ search'.left >= search.left
           /\ search'.right <= search.right

\* C22: the binary search terminates for every assignment of block
\* timestamps, non-monotonic and repeated ones included: each iteration
\* either returns or strictly shrinks the interval [left, right], and every
\* search eventually returns.
C22_SearchTerminates ==
    /\ [][IterationReturnsOrShrinks]_vars
    /\ <>SearchReturned

\* C22 witness: a search over a chain whose timestamps go down somewhere
\* and repeat has returned after probing at least two midpoints without a
\* hit and without a failed fetch.
C22_ReturnedOnDisorderedChain ==
    /\ SearchReturned
    /\ ~search.failed
    /\ ~Monotone(search.chain)
    /\ RepeatedTimes(search.chain)
    /\ Len(search.probed) >= 2
    /\ search.left > search.right

(***************************************************************************)
(* The value returned when the bounds cross.                               *)
(***************************************************************************)
NoProbeHit(s) == \A i \in DOMAIN s.probed : ~Hit(s.chain, s.probed[i])

\* C23: a search in which no fetch fails returns a block of the window
\* [max(0, latest - 7200), latest], never latest + 1 and never a block below
\* the window; when no probed midpoint is within tolerance it returns the
\* lower bound left as it stands when the bounds have crossed.
C23_ReturnsLowerBoundInsideWindow ==
    (SearchReturned /\ ~search.failed) =>
        /\ search.returned[1] \in Window(search.chain)
        /\ NoProbeHit(search) =>
              /\ search.left = search.right + 1
              /\ search.returned[1] = search.left

\* C23 witness: a search without a hit has ended on the upper edge of the
\* window: every block below the latest one is older than the target, so
\* left has climbed to latest and is returned.
C23_LowerBoundReachedLatest ==
    /\ SearchReturned
    /\ ~search.failed
    /\ NoProbeHit(search)
    /\ Len(search.probed) >= 2
    /\ search.returned[1] = Latest(search.chain)

(***************************************************************************)
(* Part 5: blockchain_utils.get_wallet_metrics (lines 1494-1663), one call *)
(* on its own.                                                             *)
(*                                                                         *)
(* A transaction record is what Etherscan's JSON holds: a key may be       *)
(* absent (subscripting raises KeyError), null, or a string; a string of   *)
(* digits is held as the number it spells.  Amounts are kept in the unit   *)
(* the record has them in, so that sums are exact.  The two loops run      *)
(* without an await; an action is one iteration, so that the locals can be *)
(* seen after every record.                                                *)
(***************************************************************************)
Absent == <<"absent">>
Null == <<"null">>
Str(text) == <<"str", text>>
Digits(n) == <<"digits", n>>

\* str.isdigit()
IsDigits(value) == value[1] = "digits"

\* int(value), where it does not raise
IntOf(value) == value[2]

\* bool(value) of a JSON value: null and "" are falsy
IsTruthy(value) == IsDigits(value) \/ (value[1] = "str" /\ value[2] # "")

\* one JSON value as an address text
TextOf(value) == value[2]

\* str.lower() on the addresses that occur; Etherscan answers in lower
\* case, callers pass checksummed addresses.
LowerTable ==
    ("0xAbC1" :> "0xabc1") @@
    ("0xDeF2" :> "0xdef2") @@
    ("0x95aD61b0a150d79219dCF64E1E6Cc01f0B64C4cE"
        :> "0x95ad61b0a150d79219dcf64e1e6cc01f0b64c4ce") @@
    ("0x7a250d5630B4cF539739dF2C5dAcb4c659F2488D"
        :> "0x7a250d5630b4cf539739df2c5dacb4c659f2488d") @@
    ("0x7b5C526B7F8dfdff278b4a3e045083FBA4028790"
        :> "0x7b5c526b7f8dfdff278b4a3e045083fba4028790")

Lower(text) == IF text \in DOMAIN LowerTable THEN LowerTable[text] ELSE text

\* Web3.is_address on the strings that occur
IsHexAddress(text) == text \in {"0xAbC1", "0xabc1", "0xDeF2", "0xdef2"}

WalletAddress == "0xAbC1"
Self == "0xabc1"
Other == "0xdef2"

\* current_block['timestamp'] and the timestamps around it: two days
\* earlier, the same second, one second later.
CurrentTime == 2 * DaySeconds + 27200
Earlier == CurrentTime - 2 * DaySeconds

Tx(timeStamp, from, to, value, isError, gasUsed, gasPrice) ==
    [timeStamp |-> timeStamp, from |-> from, to |-> to, value |-> value,
     isError |-> isError, gasUsed |-> gasUsed, gasPrice |-> gasPrice]

SentEarlier ==
    Tx(Digits(Earlier), Str(Self), Str(Other), Digits(2), Digits(0),
       Digits(3), Digits(5))
ReceivedNowFailed ==
    Tx(Digits(CurrentTime), Str(Other), Str(Self), Digits(1), Digits(1),
       Digits(3), Digits(5))
SentInFuture ==
    Tx(Digits(CurrentTime + 1), Str(Self), Str(Other), Digits(2), Digits(1),
       Digits(3), Digits(5))
BadTimestamp ==
    Tx(Str(""), Str(Self), Str(Other), Digits(2), Digits(0),
       Digits(3), Digits(5))
SentWithoutIsError ==
    Tx(Digits(Earlier), Str(Self), Str(Other), Digits(2), Absent,
       Digits(3), Digits(5))
FromNull ==
    Tx(Digits(Earlier), Null, Str(Self), Digits(1), Digits(0),
       Digits(3), Digits(5))
CreationNoValue ==
    Tx(Digits(Earlier), Str("GENESIS"), Null, Str(""), Digits(0),
       Digits(3), Digits(5))
ReceivedWithoutGas ==
    Tx(Digits(Earlier), Str(Other), Str(Self), Digits(1), Digits(1),
       Absent, Digits(5))

TxKinds ==
    {SentEarlier, ReceivedNowFailed, SentInFuture, BadTimestamp,
     SentWithoutIsError, FromNull, CreationNoValue, ReceivedWithoutGas}

MaxTxs == 2
MaxInternalTxs == 1

TxLists(longest) == UNION {[1..n -> TxKinds] : n \in 0..longest}

\* lines 1502-1520: metrics as initialised; the balance is a fixed amount.
InitialMetrics ==
    [balance |-> 3,
     total_transactions |-> 0,
     first_tx_timestamp |-> None,
     last_tx_timestamp |-> None,
     unique_interacted_addresses |-> 0,
     incoming_tx_count |-> 0,
     outgoing_tx_count |-> 0,
     failed_tx_count |-> 0,
     total_received_eth |-> 0,
     total_sent_eth |-> 0,
     avg_gas_used |-> 0,
     total_gas_spent_eth |-> 0,
     token_holdings |-> <<>>,
     defi_interactions |-> {},
     nft_holdings |-> 0,
     nft_transactions |-> 0,
     wallet_age_days |-> 0]

\* The locals the loops work on.
InitialLocals ==
    [metrics |-> InitialMetrics, unique_addresses |-> {},
     total_gas |-> 0, valid_tx_count |-> 0]

\* The timestamp test left out.
IsInFutureNever(tx_timestamp, current_time) == FALSE

\* lines 1565 and 1613: tx_timestamp > current_time
IsInFuture(tx_timestamp, current_time) == tx_timestamp > current_time

\* lines 1569-1572 and 1617-1620
after_timestamps(w, tx_timestamp) ==
    LET m == w.metrics
        first == IF m.first_tx_timestamp = None
                    \/ tx_timestamp < m.first_tx_timestamp[1]
                 THEN Some(tx_timestamp) ELSE m.first_tx_timestamp
        last == IF m.last_tx_timestamp = None
                   \/ tx_timestamp > m.last_tx_timestamp[1]
                THEN Some(tx_timestamp) ELSE m.last_tx_timestamp
    IN  [w EXCEPT !.metrics.first_tx_timestamp = first,
                  !.metrics.last_tx_timestamp = last]

\* one of lines 1575-1578 and 1623-1626
after_unique(w, party) ==
    IF IsTruthy(party) /\ IsHexAddress(TextOf(party))
    THEN [w EXCEPT !.unique_addresses = @ \cup {Lower(TextOf(party))}]
    ELSE w

\* tx['value'] and tx['value'].isdigit(), 'value' being present
Amount(tx) == IF IsDigits(tx.value) THEN IntOf(tx.value) ELSE 0

\* lines 1581-1588 and 1629-1634, reached with from a string and 'value'
\* present; the internal loop moves no counter.
after_counts(w, tx, address, internal) ==
    IF Lower(TextOf(tx.from)) = Lower(address)
    THEN [w EXCEPT !.metrics.outgoing_tx_count =
                       IF internal THEN @ ELSE @ + 1,
                   !.metrics.total_sent_eth = @ + Amount(tx)]
    ELSE IF IsTruthy(tx.to) /\ Lower(TextOf(tx.to)) = Lower(address)
    THEN [w EXCEPT !.metrics.incoming_tx_count =
                       IF internal THEN @ ELSE @ + 1,
                   !.metrics.total_received_eth = @ + Amount(tx)]
    ELSE w

\* lines 1591-1592
after_failed(w, tx) ==
    IF tx.isError = Digits(1)
    THEN [w EXCEPT !.metrics.failed_tx_count = @ + 1] ELSE w

\* lines 1595-1601
after_gas(w, tx) ==
    LET counted == IF IsDigits(tx.gasUsed) /\ IsDigits(tx.gasPrice)
                   THEN [w EXCEPT
                            !.total_gas = @ + IntOf(tx.gasUsed),
                            !.metrics.total_gas_spent_eth =
                                @ + IntOf(tx.gasUsed) * IntOf(tx.gasPrice)]
                   ELSE w
    IN  [counted EXCEPT !.valid_tx_count = @ + 1]

\* lines 1560-1604: one iteration of the loop over the normal transactions.
\* A raise inside the try (a missing key, int() of a string that is no
\* number, .lower() of null) leaves the locals as they stand at that line
\* and the loop goes on with the next record (except: continue).  The
\* records all carry 'value'.
process_normal(w, tx, address, current_time) ==
    IF tx.timeStamp = Absent \/ ~IsDigits(tx.timeStamp) THEN w
    ELSE IF IsInFuture(IntOf(tx.timeStamp), current_time) THEN w
    ELSE LET w1 == after_timestamps(w, IntOf(tx.timeStamp))
         IN  IF tx.from = Absent THEN w1
             ELSE LET w2 == after_unique(w1, tx.from)
                  IN  IF tx.to = Absent THEN w2
                      ELSE LET w3 == after_unique(w2, tx.to)
                           IN  IF tx.from = Null THEN w3
                               ELSE LET w4 == after_counts(w3, tx, address,
                                                           FALSE)
                                    IN  IF tx.isError = Absent THEN w4
                                        ELSE LET w5 == after_failed(w4, tx)
                                             IN  IF tx.gasUsed = Absent
                                                    \/ (IsDigits(tx.gasUsed)
                                                        /\ tx.gasPrice = Absent)
                                                 THEN w5
                                                 ELSE after_gas(w5, tx)

\* lines 1608-1637: one iteration of the loop over the internal
\* transactions.
process_internal(w, tx, address, current_time) ==
    IF tx.timeStamp = Absent \/ ~IsDigits(tx.timeStamp) THEN w
    ELSE IF IsInFuture(IntOf(tx.timeStamp), current_time) THEN w
    ELSE LET w1 == after_timestamps(w, IntOf(tx.timeStamp))
         IN  IF tx.from = Absent THEN w1
             ELSE LET w2 == after_unique(w1, tx.from)
                  IN  IF tx.to = Absent THEN w2
                      ELSE LET w3 == after_unique(w2, tx.to)
                           IN  IF tx.from = Null THEN w3
                               ELSE after_counts(w3, tx, address, TRUE)

\* datetime.fromtimestamp(t).strftime('%m/%d/%Y'): the calendar day, here
\* as the number of the day.
FormatDay(timestamp) == <<"day", timestamp \div DaySeconds>>

\* 0 and None are falsy (lines 1650, 1654, 1657)
TruthyInt(optional) == optional # None /\ optional[1] # 0

\* lines 1640-1659: the figures computed after the loops and the dates
\* formatted.  avg_gas_used is the whole part of the quotient.
finish_metrics(w, address, current_time) ==
    LET m == w.metrics
        first == m.first_tx_timestamp
        last == m.last_tx_timestamp
    IN  [m EXCEPT
            !.avg_gas_used = IF w.valid_tx_count > 0
                             THEN w.total_gas \div w.valid_tx_count ELSE 0,
            !.total_transactions = w.valid_tx_count,
            !.unique_interacted_addresses =
                Cardinality(w.unique_addresses \ {Lower(address)}),
            !.wallet_age_days =
                IF TruthyInt(first)
                THEN (current_time - first[1]) \div DaySeconds ELSE @,
            !.first_tx_timestamp =
                IF TruthyInt(first) THEN Some(FormatDay(first[1])) ELSE first,
            !.last_tx_timestamp =
                IF TruthyInt(last) THEN Some(FormatDay(last[1])) ELSE last]

NewWalletCall(address, txs, internals) ==
    [fn |-> "get_wallet_metrics",
     pc |-> "called",
     address |-> address,
     tx_data |-> txs,               \* tx_data['result'] under status '1'
     internal_data |-> internals,   \* internal_data['result'] under status '1'
     current_time |-> None,
     locals |-> InitialLocals,
     next |-> 1,                    \* the record the running loop is at
     returned |-> None]

InitWalletMetrics ==
    /\ PipelineUnused
    /\ ServiceLoaded
    /\ task = NoTasks
    /\ search = NoSearch
    /\ scan = NoScan
    /\ call \in {NewWalletCall(WalletAddress, txs, internals) :
                    txs \in TxLists(MaxTxs),
                    internals \in TxLists(MaxInternalTxs)}

OnlyCallChanges ==
    /\ UNCHANGED <<risk_weights, risk_combinations, task, KNOWN_PROTOCOLS,
                   config_cache, search, scan>>
    /\ UNCHANGED pipeline_call_vars

IsWalletCall == call # NoCall /\ call.fn = "get_wallet_metrics"

\* lines 1498-1556: the latest block, the balance and both lists fetched.
WalletBegin ==
    /\ IsWalletCall
    /\ call.pc = "called"
    /\ call' = [call EXCEPT !.pc = "normal",
                            !.current_time = Some(CurrentTime)]
    /\ OnlyCallChanges

\* lines 1498-1559 and 1662-1663: a fetch raises, or a body has no 'status';
\* the function returns {}.
WalletFetchFails ==
    /\ IsWalletCall
    /\ call.pc = "called"
    /\ call' = [call EXCEPT !.pc = "returned", !.returned = Some(EmptyDict)]
    /\ OnlyCallChanges

\* lines 1560-1604, one record
WalletNormalTx ==
    /\ IsWalletCall
    /\ call.pc = "normal"
    /\ call.next <= Len(call.tx_data)
    /\ call' = [call EXCEPT
                   !.locals = process_normal(@, call.tx_data[call.next],
                                  call.address, call.current_time[1]),
                   !.next = @ + 1]
    /\ OnlyCallChanges

\* line 1560 exhausted, line 1607 entered
WalletNormalDone ==
    /\ IsWalletCall
    /\ call.pc = "normal"
    /\ call.next > Len(call.tx_data)
    /\ call' = [call EXCEPT !.pc = "internal", !.next = 1]
    /\ OnlyCallChanges

\* lines 1608-1637, one record
WalletInternalTx ==
    /\ IsWalletCall
    /\ call.pc = "internal"
    /\ call.next <= Len(call.internal_data)
    /\ call' = [call EXCEPT
                   !.locals = process_internal(@,
                                  call.internal_data[call.next],
                                  call.address, call.current_time[1]),
                   !.next = @ + 1]
    /\ OnlyCallChanges

\* lines 1640-1661: the loops are done; compute, format and return.
WalletFinish ==
    /\ IsWalletCall
    /\ call.pc = "internal"
    /\ call.next > Len(call.internal_data)
    /\ call' = [call EXCEPT
                   !.pc = "returned",
                   !.returned = Some(finish_metrics(call.locals, call.address,
                                         call.current_time[1]))]
    /\ OnlyCallChanges

NextWalletMetrics ==
    \/ WalletBegin
    \/ WalletFetchFails
    \/ WalletNormalTx
    \/ WalletNormalDone
    \/ WalletInternalTx
    \/ WalletFinish

SpecWalletMetrics == InitWalletMetrics /\ [][NextWalletMetrics]_vars

(***************************************************************************)
(* Properties of get_wallet_metrics.                                       *)
(***************************************************************************)
WalletReturned == IsWalletCall /\ call.pc = "returned"

\* The call returned a metrics record, not {}.
WalletAnswered == WalletReturned /\ call.returned[1] # EmptyDict

\* A record whose timestamp is a number greater than the current time.
FutureTx(tx) == IsDigits(tx.timeStamp) /\ IntOf(tx.timeStamp) > CurrentTime

RECURSIVE WithoutFuture(_)
WithoutFuture(txs) ==
    IF txs = <<>> THEN <<>>
    ELSE IF FutureTx(Head(txs)) THEN WithoutFuture(Tail(txs))
    ELSE <<Head(txs)>> \o WithoutFuture(Tail(txs))

\* The locals after a loop has gone through the records from the k-th on.
RECURSIVE AfterNormal(_, _, _)
AfterNormal(w, txs, k) ==
    IF k > Len(txs) THEN w
    ELSE AfterNormal(process_normal(w, txs[k], WalletAddress, CurrentTime),
                     txs, k + 1)

RECURSIVE AfterInternal(_, _, _)
AfterInternal(w, txs, k) ==
    IF k > Len(txs) THEN w
    ELSE AfterInternal(process_internal(w, txs[k], WalletAddress, CurrentTime),
                       txs, k + 1)

\* What the call returns for the two lists.
MetricsFor(txs, internals) ==
    finish_metrics(AfterInternal(AfterNormal(InitialLocals, txs, 1),
                                 internals, 1),
                   WalletAddress, CurrentTime)

\* C24: a normal or internal transaction whose timestamp is greater than
\* the current block time contributes to no metric: the record returned is
\* the one returned for the same lists with those transactions taken out;
\* while the loops run the first and last timestamps never exceed the
\* current time, the day reported as last_tx_timestamp is not after the
\* current day, and wallet_age_days is never negative.
C24_FutureTransactionsContributeNothing ==
    /\ (IsWalletCall /\ call.pc \in {"normal", "internal"}) =>
          LET m == call.locals.metrics
          IN  /\ m.first_tx_timestamp # None =>
                    m.first_tx_timestamp[1] <= CurrentTime
              /\ m.last_tx_timestamp # None =>
                    m.last_tx_timestamp[1] <= CurrentTime
    /\ WalletAnswered =>
          LET m == call.returned[1]
          IN  /\ m = MetricsFor(WithoutFuture(call.tx_data),
                                WithoutFuture(call.internal_data))
              /\ m.wallet_age_days >= 0
              /\ m.last_tx_timestamp # None =>
                    m.last_tx_timestamp[1][2] <= CurrentTime \div DaySeconds

\* C24 witness: a call has returned metrics for lists that hold a future
\* transaction among the normal ones and among the internal ones, next to a
\* transaction that was counted.
C24_ReturnedWithFutureTransactions ==
    /\ WalletAnswered
    /\ \E i \in DOMAIN call.tx_data : FutureTx(call.tx_data[i])
    /\ \E i \in DOMAIN call.internal_data : FutureTx(call.internal_data[i])
    /\ call.returned[1].total_transactions >= 1

\* C28 (as stated): in every metrics record returned, incoming_tx_count +
\* outgoing_tx_count <= total_transactions and failed_tx_count <=
\* total_transactions.
C28_CountersMutuallyConsistent ==
    WalletAnswered =>
        LET m == call.returned[1]
        IN  /\ m.incoming_tx_count + m.outgoing_tx_count
                  <= m.total_transactions
            /\ m.failed_tx_count <= m.total_transactions

(***************************************************************************)
(* Part 6: blockchain_utils.get_token_holders_info (lines 529-655) with    *)
(* get_contract_interactions (lines 723-757) and                           *)
(* calculate_avg_holding_time (lines 657-699), one call on its own.        *)
(*                                                                         *)
(* A transfer is a record of Alchemy's answer: 'from' and 'to' (absent,    *)
(* null or a string), 'value', and metadata.blockTimestamp, an ISO time    *)
(* held as the second it names, or None where parse_timestamp finds no     *)
(* time to parse.  The transfers carry no 'total_supply', so the whale     *)
(* threshold of lines 581-594 is min(0, ...) = 0.                          *)
(***************************************************************************)
TokenAddress == "0x95aD61b0a150d79219dCF64E1E6Cc01f0B64C4cE"
UniswapRouter == "0x7a250d5630b4cf539739df2c5dacb4c659f2488d"
SushiRouter == "0xd9e1ce17f2641f24ae83637ab66a2cca9c378b9f"

Transfer(from, to, value, blockTimestamp) ==
    [from |-> from, to |-> to, value |-> value,
     blockTimestamp |-> blockTimestamp]

TransferKinds ==
    {Transfer(Str(UniswapRouter), Str(Self), 4, Some(10)),
     Transfer(Str(Self), Str(SushiRouter), 2, Some(4000)),
     Transfer(Str(UniswapRouter), Str(SushiRouter), 1, Some(40)),
     Transfer(Str(Self), Str(Other), 1, Some(100)),
     Transfer(Str(Other), Str(Self), 3, Some(100000)),
     Transfer(Str(TokenAddress), Str(Self), 5, None),
     Transfer(Absent, Str(Other), 1, Some(10)),
     Transfer(Null, Str(Self), 1, Some(40))}

MaxTransfers == 3

TransferLists == UNION {[1..n -> TransferKinds] : n \in 0..MaxTransfers}

\* transfer.get(key, ''), then .lower(): the text, or a raise for null
GetOrEmpty(value) == IF value = Absent THEN Str("") ELSE value

\* lines 541-561: the record returned when there is no transfer
NoTransfersInfo ==
    [holder_activity |-> [active_addresses |-> 0, buy_sell_ratio |-> "0:0",
                          avg_transaction |-> 0],
     whale_analysis |-> [large_transactions |-> 0, accumulation_events |-> 0,
                         disposal_events |-> 0],
     contract_interactions |-> [defi_interactions |-> 0,
                                unique_contracts |-> 0],
     trading_patterns |-> [avg_holding_time |-> "0s", active_pairs |-> 0]]

\* lines 572-578 and 597
HoldersLocals ==
    [unique_addresses |-> {}, buy_count |-> 0, sell_count |-> 0,
     total_amount |-> 0, large_tx_count |-> 0, accumulation_events |-> 0,
     disposal_events |-> 0, address_balances |-> EmptyDict]

\* lines 622-625
CountTrade(h, from_addr, to_addr, protocols) ==
    IF from_addr \in DOMAIN protocols
    THEN [h EXCEPT !.buy_count = @ + 1]
    ELSE IF to_addr \in DOMAIN protocols
    THEN [h EXCEPT !.sell_count = @ + 1]
    ELSE h

\* address_balances[key] = address_balances.get(key, 0) + amount
Credit(balances, key, amount) ==
    (key :> (IF key \in DOMAIN balances THEN balances[key] ELSE 0) + amount)
        @@ balances

\* lines 600-631: one iteration, reached with 'from' and 'to' not null
process_transfer(h, transfer, address, protocols) ==
    LET from_addr == Lower(TextOf(GetOrEmpty(transfer.from)))
        to_addr == Lower(TextOf(GetOrEmpty(transfer.to)))
        amount == transfer.value
        self == Lower(address)
        h1 == [h EXCEPT !.unique_addresses =
                  @ \cup (IF from_addr # "" /\ from_addr # self
                          THEN {from_addr} ELSE {})
                    \cup (IF to_addr # "" /\ to_addr # self
                          THEN {to_addr} ELSE {})]
        h2 == IF from_addr # self
              THEN [h1 EXCEPT
                      !.address_balances = Credit(@, from_addr, 0 - amount),
                      !.disposal_events =
                          IF from_addr \notin DOMAIN protocols
                          THEN @ + 1 ELSE @]
              ELSE h1
        h3 == IF to_addr # self
              THEN [h2 EXCEPT
                      !.address_balances = Credit(@, to_addr, amount),
                      !.accumulation_events =
                          IF to_addr \notin DOMAIN protocols
                          THEN @ + 1 ELSE @]
              ELSE h2
        h4 == CountTrade(h3, from_addr, to_addr, protocols)
    IN  [h4 EXCEPT !.large_tx_count = IF amount > 0 THEN @ + 1 ELSE @,
                   !.total_amount = @ + amount]

\* lines 726-755, without the list of top contracts
RECURSIVE get_contract_interactions(_, _, _, _)
get_contract_interactions(address, transfers, k, found) ==
    IF k > Len(transfers)
    THEN [defi_interactions |-> found.defi,
          unique_contracts |-> Cardinality(found.contracts)]
    ELSE LET contract_addr ==
                 Lower(TextOf(GetOrEmpty(transfers[k].to)))
         IN  IF contract_addr # "" /\ contract_addr # Lower(address)
             THEN get_contract_interactions(address, transfers, k + 1,
                      [contracts |-> found.contracts \cup {contract_addr},
                       defi |-> IF contract_addr \in DOMAIN KnownProtocolsTable
                                THEN found.defi + 1 ELSE found.defi])
             ELSE get_contract_interactions(address, transfers, k + 1, found)

\* lines 663-670: parse_timestamp
parse_timestamp(transfer) ==
    IF transfer.blockTimestamp = None THEN 0 ELSE transfer.blockTimestamp[1]

\* line 672: the keys of the transfers in sorted order (insertion of one key)
RECURSIVE InsertSorted(_, _)
InsertSorted(times, t) ==
    IF times = <<>> THEN <<t>>
    ELSE IF t < Head(times) THEN <<t>> \o times
    ELSE <<Head(times)>> \o InsertSorted(Tail(times), t)

RECURSIVE SortedTimes(_, _)
SortedTimes(transfers, k) ==
    IF k = 0 THEN <<>>
    ELSE InsertSorted(SortedTimes(transfers, k - 1),
                      parse_timestamp(transfers[k]))

\* lines 675-680: the positive differences of neighbours
RECURSIVE TimeDiffs(_, _)
TimeDiffs(times, i) ==
    IF i > Len(times) THEN <<>>
    ELSE (IF times[i] > times[i - 1]
          THEN <<times[i] - times[i - 1]>> ELSE <<>>)
         \o TimeDiffs(times, i + 1)

RECURSIVE SumSeq(_)
SumSeq(numbers) ==
    IF numbers = <<>> THEN 0 ELSE Head(numbers) + SumSeq(Tail(numbers))

\* lines 682-696: the average of the samples and its unit; int() cuts the
\* fraction
FormatAverage(samples) ==
    LET total == SumSeq(samples)
        n == Len(samples)
    IN  IF n = 0 THEN "0s"
        ELSE IF total < 60 * n THEN ToString(total \div n) \o "s"
        ELSE IF total < 3600 * n THEN ToString(total \div (n * 60)) \o "m"
        ELSE IF total < 86400 * n THEN ToString(total \div (n * 3600)) \o "h"
        ELSE ToString(total \div (n * 86400)) \o "d"

\* lines 657-699
calculate_avg_holding_time(transfers) ==
    FormatAverage(TimeDiffs(SortedTimes(transfers, Len(transfers)), 2))

\* lines 634-652: the record returned after the loop; avg_transaction is
\* the whole part of the quotient
holders_info(h, address, transfers, protocols) ==
    [holder_activity |->
        [active_addresses |-> Cardinality(h.unique_addresses),
         buy_sell_ratio |->
             ToString(h.buy_count) \o ":" \o ToString(h.sell_count),
         avg_transaction |-> h.total_amount \div Len(transfers)],
     whale_analysis |->
        [large_transactions |-> h.large_tx_count,
         accumulation_events |-> h.accumulation_events,
         disposal_events |-> h.disposal_events],
     contract_interactions |->
         get_contract_interactions(address, transfers, 1,
                                   [contracts |-> {}, defi |-> 0]),
     trading_patterns |->
        [avg_holding_time |-> calculate_avg_holding_time(transfers),
         active_pairs |->
             Cardinality(h.unique_addresses \cap DOMAIN protocols)]]

NewHoldersCall(address, transfers) ==
    [fn |-> "get_token_holders_info",
     pc |-> "called",
     address |-> address,
     transfers |-> transfers,       \* what batch_fetch_transfers answers
     locals |-> HoldersLocals,
     next |-> 1,
     raised |-> FALSE,
     returned |-> None]

InitTokenHolders ==
    /\ PipelineUnused
    /\ ServiceLoaded
    /\ task = NoTasks
    /\ search = NoSearch
    /\ scan = NoScan
    /\ call \in {NewHoldersCall(TokenAddress, transfers) :
                    transfers \in TransferLists}

IsHoldersCall == call # NoCall /\ call.fn = "get_token_holders_info"

\* lines 535-594: the transfers fetched; none gives the fixed record.
HoldersBegin ==
    /\ IsHoldersCall
    /\ call.pc = "called"
    /\ call' = IF call.transfers = <<>>
               THEN [call EXCEPT !.pc = "returned",
                                 !.returned = Some(NoTransfersInfo)]
               ELSE [call EXCEPT !.pc = "loop"]
    /\ OnlyCallChanges

\* lines 535-538 and 654-655: fetching the transfers raises
HoldersFetchFails ==
    /\ IsHoldersCall
    /\ call.pc = "called"
    /\ call' = [call EXCEPT !.pc = "returned", !.raised = TRUE,
                            !.returned = Some(EmptyDict)]
    /\ OnlyCallChanges

\* lines 599-631, one transfer; .lower() of a null 'from' or 'to' raises
\* and the except of line 654 returns {}
HoldersTransfer ==
    /\ IsHoldersCall
    /\ call.pc = "loop"
    /\ call.next <= Len(call.transfers)
    /\ LET transfer == call.transfers[call.next]
       IN  call' =
             IF transfer.from = Null \/ transfer.to = Null
             THEN [call EXCEPT !.pc = "returned", !.raised = TRUE,
                               !.returned = Some(EmptyDict)]
             ELSE [call EXCEPT
                     !.locals = process_transfer(@, transfer, call.address,
                                                 KNOWN_PROTOCOLS),
                     !.next = @ + 1]
    /\ OnlyCallChanges

\* lines 634-652: the loop is done
HoldersFinish ==
    /\ IsHoldersCall
    /\ call.pc = "loop"
    /\ call.next > Len(call.transfers)
    /\ call' = [call EXCEPT
                   !.pc = "returned",
                   !.returned = Some(holders_info(call.locals, call.address,
                                         call.transfers, KNOWN_PROTOCOLS))]
    /\ OnlyCallChanges

NextTokenHolders ==
    \/ HoldersBegin
    \/ HoldersFetchFails
    \/ HoldersTransfer
    \/ HoldersFinish

SpecTokenHolders == InitTokenHolders /\ [][NextTokenHolders]_vars

(***************************************************************************)
(* Properties of get_token_holders_info.                                   *)
(***************************************************************************)
HoldersAnswered ==
    IsHoldersCall /\ call.pc = "returned" /\ ~call.raised

IsProtocol(value) ==
    /\ value # Absent
    /\ value # Null
    /\ Lower(TextOf(value)) \in DOMAIN KNOWN_PROTOCOLS

FromProtocol(transfers) ==
    {i \in DOMAIN transfers : IsProtocol(transfers[i].from)}

ToProtocol(transfers) ==
    {i \in DOMAIN transfers : IsProtocol(transfers[i].to)}

BuySellRatio == call.returned[1].holder_activity.buy_sell_ratio

\* C25 (as stated): after a transfer batch has been processed, the buy count
\* is the number of transfers whose sender is a known protocol address and
\* the sell count is the number of transfers whose receiver is one, as
\* reported in buy_sell_ratio.
C25_BuysAndSellsCountProtocolEnds ==
    HoldersAnswered =>
        BuySellRatio =
            ToString(Cardinality(FromProtocol(call.transfers))) \o ":"
                \o ToString(Cardinality(ToProtocol(call.transfers)))

\* The times at which an address receives, over the transfers that carry a
\* time.
ReceiptTimes(transfers, address) ==
    {transfers[i].blockTimestamp[1] :
        i \in {j \in DOMAIN transfers :
                  /\ transfers[j].blockTimestamp # None
                  /\ transfers[j].to = Str(address)}}

Earliest(times) == CHOOSE t \in times : \A u \in times : t <= u

\* The holding-time samples: for every transfer whose sender has received
\* before, the time since the sender's first receipt, when positive.
RECURSIVE HoldingSamples(_, _)
HoldingSamples(transfers, i) ==
    IF i > Len(transfers) THEN <<>>
    ELSE LET transfer == transfers[i]
             sender == transfer.from
             held == IF transfer.blockTimestamp = None
                        \/ sender = Absent \/ sender = Null
                        \/ ReceiptTimes(transfers, TextOf(sender)) = {}
                     THEN 0
                     ELSE transfer.blockTimestamp[1]
                          - Earliest(ReceiptTimes(transfers, TextOf(sender)))
         IN  (IF held > 0 THEN <<held>> ELSE <<>>)
             \o HoldingSamples(transfers, i + 1)

\* C26 (as stated): the avg_holding_time reported by get_token_holders_info
\* is the average, over all holding-time samples, of the time between an
\* address's first receipt and a later transfer in which that address is
\* the sender (non-positive deltas ignored), formatted as seconds, minutes,
\* hours or days by magnitude, and '0s' when there is no sample.
C26_AvgHoldingTimeAveragesHoldingSamples ==
    HoldersAnswered =>
        call.returned[1].trading_patterns.avg_holding_time
            = FormatAverage(HoldingSamples(call.transfers, 1))

(***************************************************************************)
(* Part 7: blockchain_utils.get_defi_interactions (lines 1665-1786), one   *)
(* call on its own.  The registry is the dict of lines 1669-1677 with its  *)
(* keys as they are spelled there.  A timestamp stands for the ISO text    *)
(* datetime.fromtimestamp(...).isoformat() makes of it, which compares as  *)
(* the timestamps do; amounts are in the unit the record has them in.      *)
(***************************************************************************)
defi_protocols ==
    ("0x7a250d5630b4cf539739df2c5dacb4c659f2488d" :> "Uniswap V2 Router") @@
    ("0x68b3465833fb72a70ecdf485e0e4c7bd8665fc45" :> "Uniswap V3 Router") @@
    ("0xd9e1ce17f2641f24ae83637ab66a2cca9c378b9f" :> "Sushiswap Router") @@
    ("0x1111111254fb6c44bac0bed2854e76f90643097d" :> "1inch Router") @@
    ("0x7d2768de32b0b80b7a3454c06bdac94a69ddc7a9" :> "Aave V2 Lending Pool") @@
    ("0x7b5C526B7F8dfdff278b4a3e045083FBA4028790" :> "Aave V3 Pool") @@
    ("0x3d9819210a31b4961b30ef54be2aed79b9c9cd3b" :> "Compound Comptroller")

\* The recipients of the records: the Uniswap V2 router in lower case and in
\* checksum case, the Aave V3 pool in lower case and in checksum case, an
\* address outside the registry, and null.
DefiTx(to, value, timeStamp) ==
    [to |-> to, value |-> value, timeStamp |-> timeStamp]

DefiTxKinds ==
    {DefiTx(Str("0x7a250d5630b4cf539739df2c5dacb4c659f2488d"), 2, 100),
     DefiTx(Str("0x7a250d5630B4cF539739dF2C5dAcb4c659F2488D"), 1, 200),
     DefiTx(Str("0x7b5c526b7f8dfdff278b4a3e045083fba4028790"), 1, 100),
     DefiTx(Str("0x7b5C526B7F8dfdff278b4a3e045083FBA4028790"), 1, 200),
     DefiTx(Str(Other), 1, 200),
     DefiTx(Null, 1, 100)}

MaxDefiTxs == 2
MaxDefiTokenTxs == 1

DefiTxLists(longest) == UNION {[1..n -> DefiTxKinds] : n \in 0..longest}

\* lines 1679-1684
NoInteractions ==
    [protocols |-> EmptyDict, total_interactions |-> 0,
     total_value_locked |-> 0, last_interaction |-> None]

\* lines 1712-1716 and 1759-1763
NewProtocolData ==
    [interaction_count |-> 0, total_value |-> 0, last_interaction |-> None]

\* lines 1725-1729: not last or tx_timestamp > last
LaterOf(last, tx_timestamp) ==
    IF last = None \/ tx_timestamp > last[1] THEN Some(tx_timestamp) ELSE last

\* lines 1706 and 1753: protocol_addr = tx['to'].lower()
RegistryKey(to) == Lower(TextOf(to))

\* lines 1706-1732 and 1753-1782: one record, 'to' not null
process_defi_tx(interactions, tx) ==
    LET protocol_addr == RegistryKey(tx.to)
    IN  IF protocol_addr \in DOMAIN defi_protocols
        THEN LET protocol_name == defi_protocols[protocol_addr]
                 old == IF protocol_name \in DOMAIN interactions.protocols
                        THEN interactions.protocols[protocol_name]
                        ELSE NewProtocolData
                 protocol_data ==
                     [interaction_count |-> old.interaction_count + 1,
                      total_value |-> old.total_value + tx.value,
                      last_interaction |->
                          LaterOf(old.last_interaction, tx.timeStamp)]
             IN  [protocols |-> (protocol_name :> protocol_data)
                                    @@ interactions.protocols,
                  total_interactions |-> interactions.total_interactions + 1,
                  total_value_locked |->
                      interactions.total_value_locked + tx.value,
                  last_interaction |->
                      LaterOf(interactions.last_interaction, tx.timeStamp)]
        ELSE interactions

NewDefiCall(address, txs, token_txs) ==
    [fn |-> "get_defi_interactions",
     pc |-> "called",
     address |-> address,
     transactions |-> txs,          \* data['result'] of txlist
     token_txs |-> token_txs,       \* data['result'] of tokentx
     interactions |-> NoInteractions,
     next |-> 1,
     raised |-> FALSE,
     returned |-> None]

InitDefiInteractions ==
    /\ PipelineUnused
    /\ ServiceLoaded
    /\ task = NoTasks
    /\ search = NoSearch
    /\ scan = NoScan
    /\ call \in {NewDefiCall(WalletAddress, txs, token_txs) :
                    txs \in DefiTxLists(MaxDefiTxs),
                    token_txs \in DefiTxLists(MaxDefiTokenTxs)}

IsDefiCall == call # NoCall /\ call.fn = "get_defi_interactions"

\* lines 1697-1702: the transaction list fetched
DefiBegin ==
    /\ IsDefiCall
    /\ call.pc = "called"
    /\ call' = [call EXCEPT !.pc = "transactions"]
    /\ OnlyCallChanges

\* lines 1698-1701, 1746-1749 and 1785-1786: a request or a body raises
DefiFetchFails ==
    /\ IsDefiCall
    /\ \/ call.pc = "called"
       \/ call.pc = "transactions" /\ call.next > Len(call.transactions)
    /\ call' = [call EXCEPT !.pc = "returned", !.raised = TRUE,
                            !.returned = Some(EmptyDict)]
    /\ OnlyCallChanges

\* One record of a loop; .lower() of a null 'to' raises and the except of
\* line 1785 returns {}.
DefiStep(txs) ==
    /\ call.next <= Len(txs)
    /\ call' = IF txs[call.next].to = Null
               THEN [call EXCEPT !.pc = "returned", !.raised = TRUE,
                                 !.returned = Some(EmptyDict)]
               ELSE [call EXCEPT
                       !.interactions = process_defi_tx(@, txs[call.next]),
                       !.next = @ + 1]
    /\ OnlyCallChanges

\* lines 1704-1732, one transaction
DefiTransaction ==
    /\ IsDefiCall
    /\ call.pc = "transactions"
    /\ DefiStep(call.transactions)

\* lines 1745-1750: the first loop is done, the token transfers fetched
DefiTokensFetched ==
    /\ IsDefiCall
    /\ call.pc = "transactions"
    /\ call.next > Len(call.transactions)
    /\ call' = [call EXCEPT !.pc = "token_txs", !.next = 1]
    /\ OnlyCallChanges

\* lines 1752-1782, one token transfer
DefiTokenTransfer ==
    /\ IsDefiCall
    /\ call.pc = "token_txs"
    /\ DefiStep(call.token_txs)

\* line 1784
DefiFinish ==
    /\ IsDefiCall
    /\ call.pc = "token_txs"
    /\ call.next > Len(call.token_txs)
    /\ call' = [call EXCEPT !.pc = "returned",
                            !.returned = Some(call.interactions)]
    /\ OnlyCallChanges

NextDefiInteractions ==
    \/ DefiBegin
    \/ DefiFetchFails
    \/ DefiTransaction
    \/ DefiTokensFetched
    \/ DefiTokenTransfer
    \/ DefiFinish

SpecDefiInteractions == InitDefiInteractions /\ [][NextDefiInteractions]_vars

(***************************************************************************)
(* Properties of get_defi_interactions.                                    *)
(***************************************************************************)
DefiAnswered == IsDefiCall /\ call.pc = "returned" /\ ~call.raised

\* The records of a list sent to an address that equals the registry key
\* when both are put in lower case.
SentTo(txs, key) ==
    {i \in DOMAIN txs : Lower(TextOf(txs[i].to)) = Lower(key)}

CountFor(protocols, name) ==
    IF name \in DOMAIN protocols THEN protocols[name].interaction_count ELSE 0

RECURSIVE SumOfCounts(_, _)
SumOfCounts(protocols, names) ==
    IF names = {} THEN 0
    ELSE LET name == CHOOSE n \in names : TRUE
         IN  protocols[name].interaction_count
                 + SumOfCounts(protocols, names \ {name})

\* C27 (as stated): registry membership is case-insensitive for every
\* registry entry: every transaction or token transfer whose recipient
\* equals a registry address when both are compared in lower case is
\* counted as one interaction with that protocol, and total_interactions is
\* the sum of the per-protocol interaction counts.
C27_RegistryMembershipIgnoresCase ==
    DefiAnswered =>
        LET found == call.returned[1]
        IN  /\ \A key \in DOMAIN defi_protocols :
                  CountFor(found.protocols, defi_protocols[key])
                      = Cardinality(SentTo(call.transactions, key))
                          + Cardinality(SentTo(call.token_txs, key))
            /\ found.total_interactions
                  = SumOfCounts(found.protocols, DOMAIN found.protocols)

(***************************************************************************)
(* Part 8: blockchain_utils.batch_fetch_transfers (lines 1820-1867), one   *)
(* call on its own.  A request is held by the two block numbers it names   *)
(* (hex(start_block), hex(end_block)); an answer by the transfers it       *)
(* lists, each a pair (request, position).                                 *)
(***************************************************************************)
ChunkBlocks == 10000

MaxChunks == 3

\* from_block, and how far behind the latest block it is: nothing, one
\* block, a chunk less one, a chunk, a chunk and one, and so on up to the
\* longest stretch.
FromBlocks == {0, 1, 5000}

Stretches ==
    {0, 1, ChunkBlocks - 1, ChunkBlocks, ChunkBlocks + 1,
     (MaxChunks - 1) * ChunkBlocks, MaxChunks * ChunkBlocks - 1}

BatchSizes == {1, 100}

\* The transfers one request may be answered with: none (also for a status
\* other than 200 or a body without them), or two.
AnswerSizes == {0, 2}

Min(a, b) == IF a < b THEN a ELSE b

\* line 1830: end_block = min(start_block + 9999, current_block)
ChunkEnd(start_block, current_block) ==
    Min(start_block + ChunkBlocks - 1, current_block)

\* transfers.extend(batch_transfers) over the results (lines 1864-1865)
RECURSIVE Extended(_, _)
Extended(results, k) ==
    IF k > Len(results) THEN <<>>
    ELSE results[k] \o Extended(results, k + 1)

\* transfers[:batch_size] (line 1867)
FirstOf(transfers, batch_size) ==
    SubSeq(transfers, 1, Min(Len(transfers), batch_size))

NewBatchCall(from_block, latest, batch_size) ==
    [fn |-> "batch_fetch_transfers",
     pc |-> "called",
     from_block |-> from_block,
     latest |-> latest,             \* what w3.eth.block_number answers
     batch_size |-> batch_size,
     current_block |-> None,
     start_block |-> None,          \* the loop variable of line 1829
     batch_requests |-> <<>>,
     results |-> <<>>,
     raised |-> FALSE,
     returned |-> None]

InitBatchFetch ==
    /\ PipelineUnused
    /\ ServiceLoaded
    /\ task = NoTasks
    /\ search = NoSearch
    /\ scan = NoScan
    /\ call \in {NewBatchCall(from_block, from_block + stretch, batch_size) :
                    from_block \in FromBlocks, stretch \in Stretches,
                    batch_size \in BatchSizes}

IsBatchCall == call # NoCall /\ call.fn = "batch_fetch_transfers"

\* lines 1824-1829: the latest block number fetched, the range started
BatchBegin ==
    /\ IsBatchCall
    /\ call.pc = "called"
    /\ call' = [call EXCEPT !.pc = "building",
                            !.current_block = Some(call.latest),
                            !.start_block = Some(call.from_block)]
    /\ OnlyCallChanges

\* lines 1829-1844: one step of range(from_block, current_block, 10000)
BatchAppend ==
    /\ IsBatchCall
    /\ call.pc = "building"
    /\ call.start_block[1] < call.current_block[1]
    /\ call' = [call EXCEPT
                   !.batch_requests =
                       Append(@, [fromBlock |-> call.start_block[1],
                                  toBlock |-> ChunkEnd(call.start_block[1],
                                                  call.current_block[1])]),
                   !.start_block = Some(call.start_block[1] + ChunkBlocks)]
    /\ OnlyCallChanges

\* lines 1829 and 1860-1861: the range is exhausted, the requests are sent
BatchGather ==
    /\ IsBatchCall
    /\ call.pc = "building"
    /\ call.start_block[1] >= call.current_block[1]
    /\ call' = [call EXCEPT !.pc = "fetching"]
    /\ OnlyCallChanges

\* lines 1847-1858: one request answered; gather keeps the answers in the
\* order of the requests
BatchAnswer ==
    /\ IsBatchCall
    /\ call.pc = "fetching"
    /\ Len(call.results) < Len(call.batch_requests)
    /\ \E size \in AnswerSizes :
          call' = [call EXCEPT
                      !.results =
                          Append(@, [j \in 1..size |->
                                        <<Len(call.results) + 1, j>>])]
    /\ OnlyCallChanges

\* lines 1864-1867: all requests answered
BatchReturn ==
    /\ IsBatchCall
    /\ call.pc = "fetching"
    /\ Len(call.results) = Len(call.batch_requests)
    /\ call' = [call EXCEPT
                   !.pc = "returned",
                   !.returned = Some(FirstOf(Extended(call.results, 1),
                                             call.batch_size))]
    /\ OnlyCallChanges

\* lines 1825 and 1861: fetching the block number or a request raises; the
\* function has no try and the exception goes to the caller
BatchRaises ==
    /\ IsBatchCall
    /\ \/ call.pc = "called"
       \/ call.pc = "fetching" /\ Len(call.results) < Len(call.batch_requests)
    /\ call' = [call EXCEPT !.pc = "returned", !.raised = TRUE]
    /\ OnlyCallChanges

NextBatchFetch ==
    \/ BatchBegin
    \/ BatchAppend
    \/ BatchGather
    \/ BatchAnswer
    \/ BatchReturn
    \/ BatchRaises

SpecBatchFetch == InitBatchFetch /\ [][NextBatchFetch]_vars

(***************************************************************************)
(* Properties of batch_fetch_transfers.                                    *)
(***************************************************************************)
\* The requests are all built and none is answered yet.
RequestsBuilt ==
    IsBatchCall /\ call.pc = "fetching" /\ call.results = <<>>

\* The requests whose range holds a block.
Requesting(block) ==
    {i \in DOMAIN call.batch_requests :
        /\ call.batch_requests[i].fromBlock <= block
        /\ block <= call.batch_requests[i].toBlock}

\* C29 (as stated): the block ranges requested partition the interval
\* [from_block, current_block]: they are pairwise disjoint, each spans at
\* most 10000 blocks, and every block from from_block up to and including
\* current_block lies in exactly one of them, also when from_block equals
\* current_block or current_block - from_block is a multiple of 10000; the
\* function returns at most batch_size transfers.
C29_RequestsPartitionInterval ==
    /\ RequestsBuilt =>
          /\ \A i \in DOMAIN call.batch_requests :
                /\ call.batch_requests[i].toBlock
                      - call.batch_requests[i].fromBlock + 1 <= ChunkBlocks
                /\ \A j \in DOMAIN call.batch_requests :
                      i # j =>
                          \/ call.batch_requests[i].toBlock
                                < call.batch_requests[j].fromBlock
                          \/ call.batch_requests[j].toBlock
                                < call.batch_requests[i].fromBlock
          /\ \A block \in call.from_block..call.current_block[1] :
                Cardinality(Requesting(block)) = 1
    /\ (IsBatchCall /\ call.pc = "returned" /\ ~call.raised) =>
          Len(call.returned[1]) <= call.batch_size


(***************************************************************************)
(* A contract whose age lookup gave nothing.                               *)
(***************************************************************************)
\* The same contract with its age known to be 30 days or more.
WithKnownOldAge(features) ==
    {[features EXCEPT !.contract_age_days = age] : age \in {30, 31, 365}}

\* The text is one of the lines of the explanation of fetch_address_data.
Explained(response, text) ==
    \E i \in DOMAIN response.explanation : response.explanation[i] = text

\* analyze_address found the factor in the features.
Detects(features, factor) ==
    LET found == ScoreAddress(risk_weights, risk_combinations,
                              features).risk_factors
    IN  \E i \in DOMAIN found : found[i][1] = factor

\* The handler of main.py answered the request with the pipeline's score.
PipelineAnswered(p) ==
    /\ Answered(p)
    /\ task[p].entry \in MainEntries
    /\ task[p].http.status_code = 200

\* C30: when get_contract_age fails or finds no age, fetch_address_data
\* sets features.contract_age_days to 0 and both scorings take the contract
\* for a new one: the score of fetch_address_data includes the new-contract
\* weight and, the contract being unverified, the unverified+new
\* combination, and analyze_address detects new_contract; neither score is
\* lower than it is for the same contract with a known age of 30 days or
\* more.
C30_FailedAgeLookupCountsAsNew ==
    \A p \in DOMAIN task :
        (AnalysedContract(p) /\ Failed(task[p].answers, "get_contract_age")) =>
            LET response == task[p].response
                features == response.features
            IN  /\ features.contract_age_days = 0
                /\ Explained(response,
                       "This is a newly deployed contract with limited history and community trust. (Impact: 0.20)")
                /\ ~features.verified_contract =>
                       Explained(response,
                           "- Combined impact of unverified_contract and new_contract increases overall risk by 15%")
                /\ \A old \in WithKnownOldAge(features) :
                       /\ response.risk_score >=
                              AggregationRisk(old, response.is_token).risk_score
                       /\ response.risk_score >=
                              AggregationRisk(old, response.is_token).risk_score
                              + 20 * Hundredth
                          \/ response.risk_score = 99 * Hundredth
                /\ PipelineAnswered(p) =>
                       /\ task[p].http.content.features = features
                       /\ task[p].http.content.risk_score = ScoreOf(features)
                       /\ Detects(features, "new_contract")
                       /\ \A old \in WithKnownOldAge(features) :
                              /\ ~Detects(old, "new_contract")
                              /\ ScoreOf(features) >= ScoreOf(old)

\* A contract that is no token, whose age lookup failed and whose honeypot
\* test passed: fetch_address_data scores it 0.70 where a known age of 30
\* days gives 0.35, and the score of analyze_address is higher as well.
C30_FailedLookupRaisedBothScores ==
    \E p \in DOMAIN task :
        /\ AnalysedContract(p)
        /\ PipelineAnswered(p)
        /\ Failed(task[p].answers, "get_contract_age")
        /\ ~task[p].response.is_token
        /\ ~task[p].response.features.honeypot_result
        /\ task[p].response.features.contract_age_days = 0
        /\ RoundHundredths(task[p].response.risk_score) = 70
        /\ \A old \in WithKnownOldAge(task[p].response.features) :
               /\ RoundHundredths(
                      AggregationRisk(old, FALSE).risk_score) = 35
               /\ task[p].http.content.risk_score > ScoreOf(old)

====
